---- MODULE Spec2Model ----
(***************************************************************************)
(* Puppy Station: the live state synchronization engine.                   *)
(*                                                                         *)
(* The model follows the relational backend (db.js) and the server that    *)
(* uses it (server part of unnamed/part_000, lines 1-391): the store       *)
(* (agents, activities, reviews), the REST write handlers, the producers   *)
(* (file watcher, activity generator, metrics sampler) and the broadcast   *)
(* fan-out over the set of live WebSocket connections.                     *)
(*                                                                         *)
(* Beside it stand the flat-file backend (agents.json and reviews.json,    *)
(* unnamed/part_000, lines 393-765) and the push client (class             *)
(* PuppyStation, unnamed/part_001), which that server feeds, with its      *)
(* reconnect handling, and the polling client (unnamed/part_002), which    *)
(* refreshes its caches from the REST routes every five seconds.           *)
(*                                                                         *)
(* Node runs every handler to completion on one thread and every db.js     *)
(* function is synchronous, so each handler is one atomic action.          *)
(***************************************************************************)
EXTENDS Integers, Sequences, FiniteSets, TLC

VARIABLES
    agents,      \* table agents: id -> [status, current_task, updated_at]
    activities,  \* table activities, rows in insertion (rowid) order
    reviews,     \* table reviews, rows in insertion (rowid) order
    now,         \* CURRENT_TIMESTAMP, in whole seconds
    started,     \* the server.listen callback has run
    clients,     \* the Set of live WebSocket connections
    readyState,  \* per connection: "CONNECTING", "OPEN", "CLOSING" or "CLOSED"
    inbox,       \* per connection: the messages handed to ws.send, in order
    sent,        \* every message given to broadcast(), in emission order
    resp,        \* outcome of the last handler that ran
    agentsJson,  \* flat-file backend: data/agents.json, agent id -> its record
    reviewsJson, \* flat-file backend: data/reviews.json, the array "reviews"
    thisAgents,     \* push client: this.agents, each agent with the ids of its activities
    thisActivities, \* push client: this.activities, newest first
    fetching,       \* push client: where fetchInitialData / fetchAllActivities stands
    handled,        \* push client: messages of its connection handled by onmessage
    cacheAgents,     \* polling client: let agents
    cacheActivities, \* polling client: let activities
    cacheReviews,    \* polling client: let reviews
    rendered,        \* polling client: the views rendered since the poll timer last fired
    polling,         \* polling client: the fetch that init or the poll callback is at
    cycles,          \* polling client: the runs of the poll callback, each with the fetch it awaits
    applied,         \* polling client: per cache, the store the answer last applied by a run was read from
    wsSockets,   \* push client: readyState of every WebSocket it has created, in order
    wsErrored,   \* push client: the sockets whose error event has fired
    wsTimers     \* push client: the delays of its pending reconnect timeouts

vars == <<agents, activities, reviews, now, started, clients, readyState, inbox, sent, resp,
          agentsJson, reviewsJson, thisAgents, thisActivities, fetching, handled,
          cacheAgents, cacheActivities, cacheReviews, rendered, polling, cycles, applied,
          wsSockets, wsErrored, wsTimers>>

store == <<agents, activities, reviews>>

file == <<agentsJson, reviewsJson>>

viewer == <<thisAgents, thisActivities, fetching, handled>>

poller == <<cacheAgents, cacheActivities, cacheReviews, rendered, polling, cycles, applied>>

reconnect == <<wsSockets, wsErrored, wsTimers>>

(***************************************************************************)
(* Bounds of the model.                                                    *)
(***************************************************************************)
MaxActivities == 6   \* rows of table activities (3 are seeded)
MaxReviews == 4      \* rows of table reviews (3 are seeded)
MaxClock == 1        \* seconds the clock may advance
MaxConns == 2        \* WebSocket connections that ever connect
MaxSystem == 1       \* "system" messages of the metrics sampler
RetentionBound == 2  \* the retention bound N (50 per agent), scaled to the tables
DefaultLimit == 2    \* the default LIMIT of a query (20), scaled to the tables
KeepReviews == 3     \* reviews the flat-file backend keeps (20), scaled
MaxSent == 3         \* messages the flat-file server broadcasts
MaxAttempts == 5     \* WebSockets the push client ever creates
MaxFeed == 4         \* activity messages that arrive at a push client with full lists
MaxCycles == 2       \* runs of the poll callback of the polling client

(***************************************************************************)
(* Values.                                                                 *)
(***************************************************************************)
NULL == -1           \* SQL NULL in a DATETIME column / no row id

AgentIds == {"buppy", "zoomie", "mechly"}

\* ids a caller names: an agent and an id that is no agent
AgentInputs == {"buppy", "ghost"}

Statuses == {"active", "idle", "busy"}
Priorities == {"high", "medium", "low"}

\* JSON body values.  "" stands for a missing or falsy field, "<num>" for a
\* JSON number (truthy, bindable, but no string), "<obj>" for a JSON object or
\* boolean (truthy, which better-sqlite3 refuses to bind).
Falsy(v) == v = ""
IsString(v) == v \notin {"<num>", "<obj>"}
Bindable(v) == v # "<obj>"

TaskInputs == {"", "t1"}
StatusInputs == {"", "idle", "sleeping"}
TypeInputs == {"", "command"}
DescriptionInputs == {"", "did something", "<obj>"}
QuestionInputs == {"", "X?", "<num>"}
PriorityInputs == {"", "high"}

\* Connections, numbered in the order in which they arrive.
Conns == 1..MaxConns
ReviewIdInputs == 1..MaxReviews

Max(S) == CHOOSE x \in S : \A y \in S : y <= x
Range(s) == {s[i] : i \in DOMAIN s}

(***************************************************************************)
(* The store (db.js).  A function of db.js is an operator from the store   *)
(* S = [agents, activities, reviews] and its arguments to                  *)
(* [S, ret, threw]: the store it leaves, its return value, and whether it  *)
(* threw.  No function of db.js opens a transaction, so a function that    *)
(* throws half-way leaves the statements it already ran applied.           *)
(***************************************************************************)
Store == [agents |-> agents, activities |-> activities, reviews |-> reviews]

Result(S, ret, threw) == [S |-> S, ret |-> ret, threw |-> threw]

\* INTEGER PRIMARY KEY AUTOINCREMENT: one more than the largest rowid ever used
\* (no row of these tables is ever deleted).
lastInsertRowid(rows) == IF rows = <<>> THEN 1 ELSE Max({rows[i].id : i \in DOMAIN rows}) + 1

\* logActivity as it would be with the FOREIGN KEY on agent_id not enforced:
\* the row is inserted whatever the agent id.
logActivity_NoForeignKey(S, agentId, type, description, review_id, t) ==
    IF ~Bindable(description) \/ ~Bindable(type) THEN Result(S, NULL, TRUE)
    ELSE LET id == lastInsertRowid(S.activities)
             row == [id |-> id, agent_id |-> agentId, type |-> type,
                     review_id |-> review_id, timestamp |-> t]
             S1 == [S EXCEPT !.activities = Append(@, row)]
         IN Result(IF agentId \in DOMAIN S.agents
                   THEN [S1 EXCEPT !.agents[agentId].updated_at = t] ELSE S1, id, FALSE)

\* logActivity: INSERT INTO activities, then UPDATE agents SET updated_at.
\* The INSERT throws when a value cannot be bound and when agent_id violates
\* the FOREIGN KEY (better-sqlite3 enforces foreign keys by default).
logActivity(S, agentId, type, description, review_id, t) ==
    IF ~Bindable(description) \/ ~Bindable(type) THEN Result(S, NULL, TRUE)
    ELSE IF agentId \notin DOMAIN S.agents THEN Result(S, NULL, TRUE)
    ELSE LET id == lastInsertRowid(S.activities)
             row == [id |-> id, agent_id |-> agentId, type |-> type,
                     review_id |-> review_id, timestamp |-> t]
         IN Result([S EXCEPT !.activities = Append(@, row),
                             !.agents[agentId].updated_at = t], id, FALSE)

\* seedInitialAgents: runs on an empty agents table.
RECURSIVE seedAgents(_, _, _)
seedAgents(S, order, t) ==
    IF order = <<>> THEN S
    ELSE LET a == Head(order)
             S1 == [S EXCEPT !.agents = (a :> [status |-> "active", current_task |-> "seed",
                                                updated_at |-> t]) @@ @]
         IN seedAgents(logActivity(S1, a, "system", "initialized and ready", NULL, t).S,
                       Tail(order), t)

\* seedSampleReviews: three INSERTs, no activity is logged.
seedSampleReviews(S, t) ==
    LET row(i, a, p) == [id |-> i, agent_id |-> a, question |-> "X?", priority |-> p,
                         status |-> "pending", created_at |-> t, resolved_at |-> NULL]
    IN [S EXCEPT !.reviews = <<row(1, "zoomie", "high"), row(2, "mechly", "medium"),
                               row(3, "buppy", "low")>>]

seedInitialAgents(S, t) ==
    IF DOMAIN S.agents = {}
    THEN seedSampleReviews(seedAgents(S, <<"buppy", "zoomie", "mechly">>, t), t)
    ELSE S

EmptyStore == [agents |-> <<>>, activities |-> <<>>, reviews |-> <<>>]

Seeded == seedInitialAgents(EmptyStore, 0)

\* updateAgentTask as it would be if it returned after its UPDATE, leaving
\* the task_update record to a later turn.
updateAgentTask_NoLog(S, agentId, task, t) ==
    IF ~Bindable(task) THEN Result(S, FALSE, TRUE)
    ELSE IF agentId \notin DOMAIN S.agents THEN Result(S, FALSE, FALSE)
    ELSE Result([S EXCEPT !.agents[agentId] =
                    [@ EXCEPT !.current_task = task, !.status = "active", !.updated_at = t]],
                TRUE, FALSE)

\* updateAgentTask as it would be without status = 'active' in its UPDATE.
updateAgentTask_KeepStatus(S, agentId, task, t) ==
    IF ~Bindable(task) THEN Result(S, FALSE, TRUE)
    ELSE IF agentId \notin DOMAIN S.agents THEN Result(S, FALSE, FALSE)
    ELSE LET S1 == [S EXCEPT !.agents[agentId] =
                        [@ EXCEPT !.current_task = task, !.updated_at = t]]
             r == logActivity(S1, agentId, "task_update", "Updated task", NULL, t)
         IN Result(r.S, TRUE, r.threw)

\* updateAgentTask: UPDATE agents, then logActivity when a row changed.
updateAgentTask(S, agentId, task, t) ==
    IF ~Bindable(task) THEN Result(S, FALSE, TRUE)
    ELSE IF agentId \notin DOMAIN S.agents THEN Result(S, FALSE, FALSE)
    ELSE LET S1 == [S EXCEPT !.agents[agentId] =
                        [@ EXCEPT !.current_task = task, !.status = "active", !.updated_at = t]]
             r == logActivity(S1, agentId, "task_update", "Updated task", NULL, t)
         IN Result(r.S, TRUE, r.threw)

\* updateAgentStatus as it would be without updated_at = CURRENT_TIMESTAMP.
updateAgentStatus_Stale(S, agentId, status, t) ==
    IF ~Bindable(status) THEN Result(S, FALSE, TRUE)
    ELSE IF agentId \notin DOMAIN S.agents THEN Result(S, FALSE, FALSE)
    ELSE Result([S EXCEPT !.agents[agentId] = [@ EXCEPT !.status = status]], TRUE, FALSE)

\* updateAgentStatus: UPDATE agents SET status = ?, whatever the value.
updateAgentStatus(S, agentId, status, t) ==
    IF ~Bindable(status) THEN Result(S, FALSE, TRUE)
    ELSE IF agentId \notin DOMAIN S.agents THEN Result(S, FALSE, FALSE)
    ELSE Result([S EXCEPT !.agents[agentId] = [@ EXCEPT !.status = status, !.updated_at = t]],
                TRUE, FALSE)

\* getAgent as it would be if every id had a row.
getAgent_Any(S, agentId) == TRUE

\* getAgent: the row, or undefined.
getAgent(S, agentId) == agentId \in DOMAIN S.agents

\* addReview as it would be if it returned without logging review_created.
addReview_NoLog(S, agentId, question, priority, t) ==
    IF ~Bindable(question) \/ ~Bindable(priority) THEN Result(S, NULL, TRUE)
    ELSE IF agentId \notin DOMAIN S.agents THEN Result(S, NULL, TRUE)
    ELSE LET id == lastInsertRowid(S.reviews)
             row == [id |-> id, agent_id |-> agentId, question |-> question,
                     priority |-> priority, status |-> "pending", created_at |-> t,
                     resolved_at |-> NULL]
             S1 == [S EXCEPT !.reviews = Append(@, row)]
         IN IF ~IsString(question) THEN Result(S1, NULL, TRUE)
            ELSE Result(S1, id, FALSE)

\* addReview: INSERT INTO reviews (FOREIGN KEY on agent_id), then
\* question.substring(0, 50), which throws on a value that is no string, then
\* logActivity.
addReview(S, agentId, question, priority, t) ==
    IF ~Bindable(question) \/ ~Bindable(priority) THEN Result(S, NULL, TRUE)
    ELSE IF agentId \notin DOMAIN S.agents THEN Result(S, NULL, TRUE)
    ELSE LET id == lastInsertRowid(S.reviews)
             row == [id |-> id, agent_id |-> agentId, question |-> question,
                     priority |-> priority, status |-> "pending", created_at |-> t,
                     resolved_at |-> NULL]
             S1 == [S EXCEPT !.reviews = Append(@, row)]
         IN IF ~IsString(question) THEN Result(S1, NULL, TRUE)
            ELSE LET r == logActivity(S1, agentId, "review_created", "Created review", id, t)
                 IN Result(r.S, id, r.threw)

\* The index in the table of the review with this id, 0 when there is none.
reviewIndex(S, reviewId) ==
    IF \E i \in DOMAIN S.reviews : S.reviews[i].id = reviewId
    THEN CHOOSE i \in DOMAIN S.reviews : S.reviews[i].id = reviewId
    ELSE 0

\* resolveReview: UPDATE reviews SET status = 'resolved', resolved_at = now
\* WHERE id = ? (the row's current status is not looked at), then logActivity
\* when a row changed.
resolveReview(S, reviewId, t) ==
    LET i == reviewIndex(S, reviewId)
    IN IF i = 0 THEN Result(S, FALSE, FALSE)
       ELSE LET S1 == [S EXCEPT !.reviews[i] = [@ EXCEPT !.status = "resolved", !.resolved_at = t]]
                r == logActivity(S1, S1.reviews[i].agent_id, "review_resolved",
                                 "Resolved review", reviewId, t)
            IN Result(r.S, TRUE, r.threw)

(***************************************************************************)
(* Projection reader (db.js).  ORDER BY names one key only, so the order   *)
(* among rows that tie on it is whatever the engine produces: a query is   *)
(* the set of the results it may return.                                   *)
(***************************************************************************)
\* Lexicographic order on ORDER BY keys (sequences of integers, ascending).
RECURSIVE KeyLess(_, _)
KeyLess(a, b) ==
    IF a = <<>> \/ b = <<>> THEN FALSE
    ELSE Head(a) < Head(b) \/ (Head(a) = Head(b) /\ KeyLess(Tail(a), Tail(b)))

\* The sequences of length k that a sort of `rows` by key[r] may start with.
RECURSIVE Sorted(_, _, _)
Sorted(rows, k, key) ==
    IF k = 0 \/ rows = {} THEN {<<>>}
    ELSE UNION {{<<r>> \o s : s \in Sorted(rows \ {r}, k - 1, key)} :
                r \in {q \in rows : \A o \in rows : ~KeyLess(key[o], key[q])}}

\* LIMIT n: a negative limit is no limit.
Limit(n, limit) == IF limit < 0 \/ limit > n THEN n ELSE limit

\* getAgentActivities: WHERE agent_id = ? ORDER BY timestamp DESC LIMIT ?
getAgentActivities(S, agentId, limit) ==
    LET rows == {r \in Range(S.activities) : r.agent_id = agentId}
    IN Sorted(rows, Limit(Cardinality(rows), limit), [r \in rows |-> <<-r.timestamp>>])

\* getRecentActivities: JOIN agents ORDER BY a.timestamp DESC LIMIT ?
getRecentActivities(S, limit) ==
    LET rows == {r \in Range(S.activities) : r.agent_id \in DOMAIN S.agents}
    IN Sorted(rows, Limit(Cardinality(rows), limit), [r \in rows |-> <<-r.timestamp>>])

priorityRank(p) == CASE p = "high" -> 1 [] p = "medium" -> 2 [] p = "low" -> 3 [] OTHER -> 4

\* getPendingReviews as it would be without WHERE r.status = 'pending'.
getPendingReviews_All(S) ==
    LET rows == {r \in Range(S.reviews) : r.agent_id \in DOMAIN S.agents}
    IN Sorted(rows, Cardinality(rows),
              [r \in rows |-> <<priorityRank(r.priority), -r.created_at>>])

\* getPendingReviews: WHERE status = 'pending' ORDER BY CASE priority ..., created_at DESC
getPendingReviews(S) ==
    LET rows == {r \in Range(S.reviews) : r.status = "pending" /\ r.agent_id \in DOMAIN S.agents}
    IN Sorted(rows, Cardinality(rows),
              [r \in rows |-> <<priorityRank(r.priority), -r.created_at>>])

\* getAllAgents: ORDER BY name.  nameRank is the rank of the agent's name in
\* the collation order: Buppy < Mechly < Zoomie.
nameRank(a) == CASE a = "buppy" -> 1 [] a = "mechly" -> 2 [] a = "zoomie" -> 3

getAllAgents(S) ==
    LET rows == {[id |-> a, status |-> S.agents[a].status,
                  current_task |-> S.agents[a].current_task,
                  updated_at |-> S.agents[a].updated_at] : a \in DOMAIN S.agents}
    IN CHOOSE s \in Sorted(rows, Cardinality(rows), [r \in rows |-> <<nameRank(r.id)>>]) : TRUE

(***************************************************************************)
(* GET /api/activities?limit=.  A query value is the sequence of its       *)
(* characters, <<>> when the parameter is absent or empty.                 *)
(***************************************************************************)
DigitValue == [c \in {"0", "1", "2", "3"} |-> CASE c = "0" -> 0 [] c = "1" -> 1
                                                [] c = "2" -> 2 [] c = "3" -> 3]

LimitInputs == {<<>>, <<"0">>, <<"1">>, <<"3">>, <<"-", "1">>, <<"x">>, <<"1", "x">>}

\* The value of the longest prefix of s made of digits, after acc.
RECURSIVE ParseDigits(_, _)
ParseDigits(s, acc) ==
    IF s = <<>> \/ Head(s) \notin DOMAIN DigitValue THEN acc
    ELSE ParseDigits(Tail(s), 10 * acc + DigitValue[Head(s)])

\* parseInt: an optional sign, then the leading digits; NaN when there is no
\* digit.  The result is [isNaN, value].
parseInt(s) ==
    LET neg == s # <<>> /\ Head(s) = "-"
        body == IF neg THEN Tail(s) ELSE s
    IN IF body = <<>> \/ Head(body) \notin DOMAIN DigitValue
       THEN [isNaN |-> TRUE, value |-> 0]
       ELSE [isNaN |-> FALSE,
             value |-> IF neg THEN 0 - ParseDigits(body, 0) ELSE ParseDigits(body, 0)]

\* app.get('/api/activities'): parseInt(req.query.limit) || 20, then
\* getRecentActivities(limit).  NaN and 0 are falsy; a negative number is not.
GetActivities(S, q) ==
    LET n == parseInt(q)
        limit == IF n.isNaN \/ n.value = 0 THEN DefaultLimit ELSE n.value
    IN getRecentActivities(S, limit)

(***************************************************************************)
(* Broadcast fan-out (server).  N = [clients, readyState, inbox, sent].    *)
(***************************************************************************)
Net == [clients |-> clients, readyState |-> readyState, inbox |-> inbox, sent |-> sent]

ActivityMsg(agentId, id) == [type |-> "activity", agentId |-> agentId, id |-> id]
TaskMsg(agentId, task) == [type |-> "task_update", agentId |-> agentId, task |-> task]
StatusMsg(agentId, status) == [type |-> "status_update", agentId |-> agentId, status |-> status]
ReviewMsg(id, agentId, priority) ==
    [type |-> "review", id |-> id, agentId |-> agentId, priority |-> priority]
ResolvedMsg(reviewId) == [type |-> "review-resolved", id |-> reviewId]
SystemMsg == [type |-> "system"]
InitMsg(agentRows, reviewRows) == [type |-> "init", agents |-> agentRows, reviews |-> reviewRows]

\* broadcast as it would be if the message were queued ahead of what the
\* connection was sent before.
broadcast_Prepend(N, msg) ==
    [N EXCEPT !.sent = Append(@, msg),
              !.inbox = [c \in DOMAIN @ |->
                            IF c \in N.clients /\ N.readyState[c] = "OPEN"
                            THEN <<msg>> \o @[c] ELSE @[c]]]

\* broadcast as it would be if the loop over the Set stopped after the first
\* client it sent to.
broadcast_FirstOnly(N, msg) ==
    LET open == {c \in N.clients : N.readyState[c] = "OPEN"}
    IN [N EXCEPT !.sent = Append(@, msg),
                 !.inbox = [c \in DOMAIN @ |->
                               IF c \in open /\ \A d \in open : c <= d
                               THEN Append(@[c], msg) ELSE @[c]]]

\* broadcast: client.send(message) for every client of the Set that is OPEN.
broadcast(N, msg) ==
    [N EXCEPT !.sent = Append(@, msg),
              !.inbox = [c \in DOMAIN @ |->
                            IF c \in N.clients /\ N.readyState[c] = "OPEN"
                            THEN Append(@[c], msg) ELSE @[c]]]

\* logAgentActivity as it would be if it broadcast before the insert.
logAgentActivity_SendFirst(S, N, agentId, type, description, t) ==
    LET r == logActivity(S, agentId, type, description, NULL, t)
    IN [S |-> r.S, N |-> broadcast(N, ActivityMsg(agentId, r.ret)),
        ret |-> IF r.threw THEN NULL ELSE r.ret]

\* logAgentActivity: logActivity, then broadcast; an exception is caught,
\* written to the console, and null is returned.
logAgentActivity(S, N, agentId, type, description, t) ==
    LET r == logActivity(S, agentId, type, description, NULL, t)
    IN IF r.threw THEN [S |-> r.S, N |-> N, ret |-> NULL]
       ELSE [S |-> r.S, N |-> broadcast(N, ActivityMsg(agentId, r.ret)), ret |-> r.ret]

(***************************************************************************)
(* The flat-file backend (second server of unnamed/part_000).  The store   *)
(* is F = [agents, reviews], the parsed content of agents.json and         *)
(* reviews.json; every function reads the file, changes the value and      *)
(* writes it back, synchronously.  Arrays are kept newest first.           *)
(***************************************************************************)
FileStore == [agents |-> agentsJson, reviews |-> reviewsJson]

\* Date.now() and new Date(), in milliseconds, when the clock shows t.
DateNow(t) == 1000 + t

\* agents.json as first written: three agents, no activity.
initialAgents == [a \in AgentIds |-> [activities |-> <<>>, lastActive |-> DateNow(0)]]

\* reviews.json as first written: two pending reviews, the second an hour old.
initialReviews ==
    <<[id |-> 1, agentId |-> "zoomie", priority |-> "high", status |-> "pending",
       timestamp |-> DateNow(0), resolvedAt |-> NULL],
      [id |-> 2, agentId |-> "mechly", priority |-> "medium", status |-> "pending",
       timestamp |-> DateNow(0) - 3600000, resolvedAt |-> NULL]>>

\* array.slice(0, n)
slice(a, n) == IF Len(a) <= n THEN a ELSE SubSeq(a, 1, n)

\* addReview (flat file): null for an unknown agent; else unshift the review,
\* keep the first 20, write, broadcast.
addReviewFile(F, N, agentId, question, priority, t) ==
    IF agentId \notin DOMAIN F.agents THEN [F |-> F, N |-> N, ret |-> NULL]
    ELSE LET review == [id |-> DateNow(t), agentId |-> agentId, priority |-> priority,
                        status |-> "pending", timestamp |-> DateNow(t), resolvedAt |-> NULL]
         IN [F |-> [F EXCEPT !.reviews = slice(<<review>> \o @, KeepReviews)],
             N |-> broadcast(N, ReviewMsg(review.id, agentId, priority)),
             ret |-> review.id]

\* reviews.find(r => r.id === reviewId): the index of the first match, or 0.
findReview(F, reviewId) ==
    IF \E i \in DOMAIN F.reviews : F.reviews[i].id = reviewId
    THEN CHOOSE i \in DOMAIN F.reviews :
            /\ F.reviews[i].id = reviewId
            /\ \A j \in 1..(i - 1) : F.reviews[j].id # reviewId
    ELSE 0

\* resolveReview (flat file): the found review becomes resolved, whatever its
\* status was; write, broadcast.
resolveReviewFile(F, N, reviewId, t) ==
    LET i == findReview(F, reviewId)
    IN IF i = 0 THEN [F |-> F, N |-> N, ret |-> FALSE]
       ELSE [F |-> [F EXCEPT !.reviews[i] =
                       [@ EXCEPT !.status = "resolved", !.resolvedAt = DateNow(t)]],
             N |-> broadcast(N, ResolvedMsg(reviewId)),
             ret |-> TRUE]

\* addActivity: for a known agent, unshift the activity, keep the first 50,
\* write, broadcast; nothing at all for an unknown agent.
addActivity(F, N, agentId, type, description, t) ==
    IF agentId \notin DOMAIN F.agents THEN [F |-> F, N |-> N]
    ELSE LET activity == [id |-> DateNow(t), type |-> type, timestamp |-> DateNow(t)]
         IN [F |-> [F EXCEPT !.agents[agentId] =
                       [activities |-> slice(<<activity>> \o @.activities, RetentionBound),
                        lastActive |-> DateNow(t)]],
             N |-> broadcast(N, ActivityMsg(agentId, activity.id))]

\* app.get('/api/reviews') (flat file): the pending reviews, in file order.
getReviewsFile(F) == SelectSeq(F.reviews, LAMBDA r : r.status = "pending")

\* app.get('/api/agents') (flat file): data.agents, in file order.
getAgentsFile(F) ==
    LET order == <<"buppy", "zoomie", "mechly">>
    IN [i \in DOMAIN order |-> [id |-> order[i], activities |-> F.agents[order[i]].activities,
                                lastActive |-> F.agents[order[i]].lastActive]]

(***************************************************************************)
(* Handlers.  resp records what the last handler was asked and answered:   *)
(* status is the HTTP status (0 for a producer that answers nobody), body  *)
(* the ids in the answer.                                                  *)
(***************************************************************************)
Resp(op, agentId, id, status, body) ==
    [op |-> op, agentId |-> agentId, id |-> id, status |-> status, body |-> body]

SystemMsgs(N) == Cardinality({i \in DOMAIN N.sent : N.sent[i].type = "system"})

\* The handler leaves store S and fan-out state N and answers r.
Commit(S, N, r) ==
    /\ Len(S.activities) <= MaxActivities
    /\ Len(S.reviews) <= MaxReviews
    /\ SystemMsgs(N) <= MaxSystem
    /\ agents' = S.agents
    /\ activities' = S.activities
    /\ reviews' = S.reviews
    /\ inbox' = N.inbox
    /\ sent' = N.sent
    /\ resp' = r
    /\ UNCHANGED <<now, clients, readyState, file, viewer, poller, reconnect>>

Init ==
    /\ agents = Seeded.agents
    /\ activities = Seeded.activities
    /\ reviews = Seeded.reviews
    /\ now = 0
    /\ started = FALSE
    /\ clients = {}
    /\ readyState = [c \in Conns |-> "CONNECTING"]
    /\ inbox = [c \in Conns |-> <<>>]
    /\ sent = <<>>
    /\ resp = Resp("initDb", "", NULL, 0, <<>>)
    /\ agentsJson = initialAgents
    /\ reviewsJson = initialReviews
    /\ thisAgents = <<>>
    /\ thisActivities = <<>>
    /\ fetching = [pc |-> "agents", order |-> <<>>, acc |-> <<>>]
    /\ handled = 0
    /\ cacheAgents = <<>>
    /\ cacheActivities = <<>>
    /\ cacheReviews = <<>>
    /\ rendered = {}
    /\ polling = "refresh agents"
    /\ cycles = <<>>
    /\ applied = [agents |-> 0, activities |-> 0, reviews |-> 0]
    /\ wsSockets = <<"CONNECTING">>
    /\ wsErrored = {}
    /\ wsTimers = <<>>

\* server.listen callback: the startup activity.
ServerListen ==
    /\ ~started
    /\ started' = TRUE
    /\ LET r == logAgentActivity(Store, Net, "buppy", "system", "dashboard started", now)
       IN Commit(r.S, r.N, Resp("listen", "buppy", r.ret, 0, <<>>))

\* app.post('/api/agents/:id/task')
PostTask(id, task) ==
    /\ started
    /\ UNCHANGED started
    /\ LET R(status) == Resp("POST task", id, NULL, status, <<>>)
       IN IF Falsy(task) THEN Commit(Store, Net, R(400))
          ELSE IF ~getAgent(Store, id) THEN Commit(Store, Net, R(404))
          ELSE LET r == updateAgentTask(Store, id, task, now)
               IN IF r.threw THEN Commit(r.S, Net, R(500))
                  ELSE IF r.ret THEN Commit(r.S, broadcast(Net, TaskMsg(id, task)), R(200))
                  ELSE Commit(r.S, Net, R(500))

\* app.post('/api/agents/:id/status')
PostStatus(id, status) ==
    /\ started
    /\ UNCHANGED started
    /\ LET R(code) == Resp("POST status", id, NULL, code, <<>>)
       IN IF Falsy(status) THEN Commit(Store, Net, R(400))
          ELSE IF ~getAgent(Store, id) THEN Commit(Store, Net, R(404))
          ELSE LET r == updateAgentStatus(Store, id, status, now)
               IN IF r.threw THEN Commit(r.S, Net, R(500))
                  ELSE IF r.ret
                  THEN LET l == logAgentActivity(r.S, Net, id, "status_change",
                                                 "Status changed", now)
                       IN Commit(l.S, broadcast(l.N, StatusMsg(id, status)), R(200))
                  ELSE Commit(r.S, Net, R(500))

\* app.post('/api/agents/:id/activity')
PostActivity(id, type, description) ==
    /\ started
    /\ UNCHANGED started
    /\ LET R(code, body) == Resp("POST activity", id, NULL, code, body)
       IN IF Falsy(type) \/ Falsy(description) THEN Commit(Store, Net, R(400, <<>>))
          ELSE IF ~getAgent(Store, id) THEN Commit(Store, Net, R(404, <<>>))
          ELSE LET l == logAgentActivity(Store, Net, id, type, description, now)
               IN Commit(l.S, l.N, R(201, <<l.ret>>))

\* app.post('/api/reviews')
PostReview(agentId, question, priority) ==
    /\ started
    /\ UNCHANGED started
    /\ LET R(code, id) == Resp("POST review", agentId, id, code, <<>>)
           p == IF Falsy(priority) THEN "medium" ELSE priority
       IN IF Falsy(agentId) \/ Falsy(question) THEN Commit(Store, Net, R(400, NULL))
          ELSE IF ~getAgent(Store, agentId) THEN Commit(Store, Net, R(404, NULL))
          ELSE LET r == addReview(Store, agentId, question, p, now)
               IN IF r.threw THEN Commit(r.S, Net, R(500, NULL))
                  ELSE Commit(r.S, broadcast(Net, ReviewMsg(r.ret, agentId, p)), R(201, r.ret))

\* app.patch('/api/reviews/:id/resolve')
PatchResolve(reviewId) ==
    /\ started
    /\ UNCHANGED started
    /\ LET R(code) == Resp("PATCH resolve", "", reviewId, code, <<>>)
           r == resolveReview(Store, reviewId, now)
       IN IF r.threw THEN Commit(r.S, Net, R(500))
          ELSE IF ~r.ret THEN Commit(r.S, Net, R(404))
          ELSE Commit(r.S, broadcast(Net, ResolvedMsg(reviewId)), R(200))

\* watcher.on('change'): the path names one of the three agents.
WatcherChange(agentId, type) ==
    /\ started
    /\ UNCHANGED started
    /\ LET l == logAgentActivity(Store, Net, agentId, type, "Updated file", now)
       IN Commit(l.S, l.N, Resp("watcher", agentId, l.ret, 0, <<>>))

\* setInterval(..., 60000): the synthetic activity generator.
Generator(randomAgent) ==
    /\ started
    /\ UNCHANGED started
    /\ LET l == logAgentActivity(Store, Net, randomAgent, "command", "randomCommand", now)
       IN Commit(l.S, l.N, Resp("generator", randomAgent, l.ret, 0, <<>>))

\* module.exports = { logAgentActivity }: a call by another module.
ExportedLogAgentActivity(agentId, type, description) ==
    /\ started
    /\ UNCHANGED started
    /\ LET l == logAgentActivity(Store, Net, agentId, type, description, now)
       IN Commit(l.S, l.N, Resp("logAgentActivity", agentId, l.ret, 0, <<>>))

\* setInterval(..., 5000): the metrics sampler broadcasts without the store.
MetricsSampler ==
    /\ started
    /\ UNCHANGED started
    /\ Commit(Store, broadcast(Net, SystemMsg), Resp("metrics", "", NULL, 0, <<>>))

\* wss.on('connection') as it would be if the socket were added to the Set
\* and the snapshot left to a later turn.
Connect_NoSnapshot(ws) ==
    /\ started
    /\ readyState[ws] = "CONNECTING"
    /\ \A d \in Conns : d < ws => readyState[d] # "CONNECTING"
    /\ clients' = clients \cup {ws}
    /\ readyState' = [readyState EXCEPT ![ws] = "OPEN"]
    /\ resp' = Resp("connection", "", ws, 0, <<>>)
    /\ UNCHANGED <<agents, activities, reviews, now, started, inbox, sent, file, viewer, poller, reconnect>>

\* wss.on('connection'): add to the Set, send the snapshot.
Connect(ws) ==
    /\ started
    /\ readyState[ws] = "CONNECTING"
    /\ \A d \in Conns : d < ws => readyState[d] # "CONNECTING"
    /\ clients' = clients \cup {ws}
    /\ readyState' = [readyState EXCEPT ![ws] = "OPEN"]
    /\ \E revs \in getPendingReviews(Store) :
          inbox' = [inbox EXCEPT ![ws] = Append(@, InitMsg(getAllAgents(Store), revs))]
    /\ resp' = Resp("connection", "", ws, 0, <<>>)
    /\ UNCHANGED <<agents, activities, reviews, now, started, sent, file, viewer, poller, reconnect>>

\* The socket starts closing (close frame, network loss): it is no longer
\* OPEN, and its 'close' event has not been emitted yet.
SocketClosing(ws) ==
    /\ readyState[ws] = "OPEN"
    /\ readyState' = [readyState EXCEPT ![ws] = "CLOSING"]
    /\ resp' = Resp("closing", "", ws, 0, <<>>)
    /\ UNCHANGED <<agents, activities, reviews, now, started, clients, inbox, sent, file, viewer, poller, reconnect>>

\* ws.on('close') as it would be without clients.delete(ws).
OnClose_Keep(ws) ==
    /\ readyState[ws] = "CLOSING"
    /\ readyState' = [readyState EXCEPT ![ws] = "CLOSED"]
    /\ resp' = Resp("close", "", ws, 0, <<>>)
    /\ UNCHANGED <<agents, activities, reviews, now, started, clients, inbox, sent, file, viewer, poller, reconnect>>

\* ws.on('close'): remove from the Set.
OnClose(ws) ==
    /\ readyState[ws] = "CLOSING"
    /\ readyState' = [readyState EXCEPT ![ws] = "CLOSED"]
    /\ clients' = clients \ {ws}
    /\ resp' = Resp("close", "", ws, 0, <<>>)
    /\ UNCHANGED <<agents, activities, reviews, now, started, inbox, sent, file, viewer, poller, reconnect>>

\* A second passes.
Tick ==
    /\ now < MaxClock
    /\ now' = now + 1
    /\ resp' = Resp("tick", "", NULL, 0, <<>>)
    /\ UNCHANGED <<agents, activities, reviews, started, clients, readyState, inbox, sent, file, viewer, poller, reconnect>>

(***************************************************************************)
(* Spec: the store and its producers.  No connection is ever made, so the  *)
(* fan-out shows in `sent` alone; requests come with valid, missing and    *)
(* malformed fields and with known and unknown ids.                        *)
(***************************************************************************)
Next ==
    \/ ServerListen
    \/ \E id \in AgentInputs, task \in TaskInputs : PostTask(id, task)
    \/ \E id \in AgentInputs, status \in StatusInputs : PostStatus(id, status)
    \/ \E id \in AgentInputs, type \in TypeInputs, d \in DescriptionInputs : PostActivity(id, type, d)
    \/ \E a \in AgentInputs, q \in QuestionInputs, p \in PriorityInputs : PostReview(a, q, p)
    \/ \E reviewId \in ReviewIdInputs : PatchResolve(reviewId)
    \/ \E a \in AgentIds : WatcherChange(a, "file_update")
    \/ \E a \in AgentIds : Generator(a)
    \/ \E a \in AgentInputs, d \in DescriptionInputs \ {""} : ExportedLogAgentActivity(a, "command", d)
    \/ Tick

Spec == Init /\ [][Next]_vars

(***************************************************************************)
(* SpecLog: the producers that log an activity through logAgentActivity    *)
(* (external report, exported call, file watcher, generator, startup),     *)
(* with valid and malformed bodies and known and unknown agent ids.        *)
(***************************************************************************)
NextLog ==
    \/ ServerListen
    \/ \E id \in AgentInputs, type \in TypeInputs, d \in DescriptionInputs : PostActivity(id, type, d)
    \/ \E a \in AgentInputs, d \in DescriptionInputs \ {""} : ExportedLogAgentActivity(a, "command", d)
    \/ \E a \in AgentIds : WatcherChange(a, "file_update")
    \/ \E a \in AgentIds : Generator(a)
    \/ Tick

SpecLog == Init /\ [][NextLog]_vars

(***************************************************************************)
(* SpecPush: the handlers seen from one connection.  The connection opens  *)
(* and closes and the metrics sampler runs while well-formed requests      *)
(* arrive; the clock stands still.                                         *)
(***************************************************************************)
NextPush ==
    \/ ServerListen
    \/ PostTask("buppy", "t1")
    \/ PostStatus("buppy", "idle")
    \/ PostActivity("buppy", "command", "did something")
    \/ PostReview("buppy", "X?", "high")
    \/ \E reviewId \in ReviewIdInputs : PatchResolve(reviewId)
    \/ WatcherChange("zoomie", "file_update")
    \/ Generator("mechly")
    \/ MetricsSampler
    \/ Connect(1)
    \/ SocketClosing(1)
    \/ OnClose(1)

SpecPush == Init /\ [][NextPush]_vars

(***************************************************************************)
(* SpecFanout: the fan-out alone.  Every connection may open and close     *)
(* while status updates (two messages from one handler) and the metrics    *)
(* sampler broadcast.                                                      *)
(***************************************************************************)
NextFanout ==
    \/ ServerListen
    \/ PostStatus("buppy", "idle")
    \/ MetricsSampler
    \/ \E ws \in Conns : Connect(ws)
    \/ \E ws \in Conns : SocketClosing(ws)
    \/ \E ws \in Conns : OnClose(ws)

SpecFanout == Init /\ [][NextFanout]_vars

(***************************************************************************)
(* SpecConnect: connections arriving while agents and reviews change.      *)
(***************************************************************************)
NextConnect ==
    \/ ServerListen
    \/ PostStatus("buppy", "idle")
    \/ PostReview("buppy", "X?", "high")
    \/ \E reviewId \in ReviewIdInputs : PatchResolve(reviewId)
    \/ \E ws \in Conns : Connect(ws)

SpecConnect == Init /\ [][NextConnect]_vars

(***************************************************************************)
(* Handlers of the flat-file server.                                       *)
(***************************************************************************)
\* The handler leaves file store F and fan-out state N and answers r.
CommitFile(F, N, r) ==
    /\ Len(N.sent) <= MaxSent
    /\ agentsJson' = F.agents
    /\ reviewsJson' = F.reviews
    /\ inbox' = N.inbox
    /\ sent' = N.sent
    /\ resp' = r
    /\ UNCHANGED <<agents, activities, reviews, now, started, clients, readyState, viewer, poller, reconnect>>

\* app.post('/api/reviews') (flat file)
FilePostReview(agentId, question, priority) ==
    LET R(code, id) == Resp("file POST review", agentId, id, code, <<>>)
        p == IF Falsy(priority) THEN "medium" ELSE priority
    IN IF Falsy(agentId) \/ Falsy(question) THEN CommitFile(FileStore, Net, R(400, NULL))
       ELSE LET r == addReviewFile(FileStore, Net, agentId, question, p, now)
            IN IF r.ret = NULL THEN CommitFile(r.F, r.N, R(404, NULL))
               ELSE CommitFile(r.F, r.N, R(201, r.ret))

\* app.patch('/api/reviews/:id/resolve') (flat file)
FilePatchResolve(reviewId) ==
    LET r == resolveReviewFile(FileStore, Net, reviewId, now)
    IN CommitFile(r.F, r.N, Resp("file PATCH resolve", "", reviewId, IF r.ret THEN 200 ELSE 404, <<>>))

\* watcher.on('change') (flat file)
FileWatcherChange(agentId, type) ==
    LET r == addActivity(FileStore, Net, agentId, type, "Updated file", now)
    IN CommitFile(r.F, r.N, Resp("file watcher", agentId, NULL, 0, <<>>))

\* setInterval(..., 30000) (flat file): the synthetic activity generator.
FileGenerator(randomAgent) ==
    LET r == addActivity(FileStore, Net, randomAgent, "command", "randomCommand", now)
    IN CommitFile(r.F, r.N, Resp("file generator", randomAgent, NULL, 0, <<>>))

\* module.exports = { addActivity, ... }: a call by another module.
ExportedAddActivity(agentId, type, description) ==
    LET r == addActivity(FileStore, Net, agentId, type, description, now)
    IN CommitFile(r.F, r.N, Resp("addActivity", agentId, NULL, 0, <<>>))

\* wss.on('connection') (flat file): add to the Set, send the snapshot.
FileConnect(ws) ==
    /\ readyState[ws] = "CONNECTING"
    /\ \A d \in Conns : d < ws => readyState[d] # "CONNECTING"
    /\ clients' = clients \cup {ws}
    /\ readyState' = [readyState EXCEPT ![ws] = "OPEN"]
    /\ inbox' = [inbox EXCEPT ![ws] =
                    Append(@, InitMsg(getAgentsFile(FileStore), getReviewsFile(FileStore)))]
    /\ resp' = Resp("file connection", "", ws, 0, <<>>)
    /\ UNCHANGED <<agents, activities, reviews, now, started, sent, file, viewer, poller, reconnect>>

(***************************************************************************)
(* The push client (class PuppyStation, unnamed/part_001), served by the   *)
(* flat-file server whose records it renders.  Its WebSocket is            *)
(* connection 1.  The client keeps the ids of the activities it shows.     *)
(***************************************************************************)
AgentActivityLimit == 20   \* GET /api/agents/:id/activity: slice(0, 20)
AgentKeep == 50            \* addActivity: agent.activities.slice(0, 50)
GlobalKeep == 20           \* addActivity: this.activities.slice(0, 20)
FetchKeep == 10            \* fetchAllActivities: activities.slice(0, 10)

IdsOf(rows) == [i \in DOMAIN rows |-> rows[i].id]

\* app.get('/api/agents/:id/activity') (flat file): the agent's newest records.
getAgentActivityFile(F, agentId) == slice(F.agents[agentId].activities, AgentActivityLimit)

\* What the client keeps of the agents array of GET /api/agents or of init:
\* the rows as they came.  A row of the SQLite server has status and
\* current_task and no activities; "" stands for a field the row has not.
AgentsSeen(rows) ==
    [i \in DOMAIN rows |->
        [id |-> rows[i].id,
         activities |-> IF "activities" \in DOMAIN rows[i] THEN IdsOf(rows[i].activities)
                        ELSE <<>>,
         status |-> IF "status" \in DOMAIN rows[i] THEN rows[i].status ELSE "",
         current_task |-> IF "current_task" \in DOMAIN rows[i] THEN rows[i].current_task
                          ELSE ""]]

\* activities.sort((a, b) => new Date(b.timestamp) - new Date(a.timestamp)):
\* a stable sort, newest first.
RECURSIVE InsertDesc(_, _)
InsertDesc(sorted, x) ==
    IF sorted = <<>> THEN <<x>>
    ELSE IF Head(sorted).timestamp >= x.timestamp
         THEN <<Head(sorted)>> \o InsertDesc(Tail(sorted), x)
         ELSE <<x>> \o sorted

RECURSIVE SortDesc(_)
SortDesc(a) == IF a = <<>> THEN <<>> ELSE InsertDesc(SortDesc(SubSeq(a, 1, Len(a) - 1)), a[Len(a)])

Shown(rows) == [i \in DOMAIN rows |-> [id |-> rows[i].id, agentId |-> rows[i].agentId]]

\* The handlers of the client leave everything of the server alone.
ClientStep(r) ==
    /\ resp' = r
    /\ UNCHANGED <<agents, activities, reviews, now, started, clients, readyState, inbox, sent, file,
                   poller, reconnect>>

\* fetchInitialData: this.agents = the answer of GET /api/agents, then
\* fetchAllActivities starts over the agents of that array.
FetchInitialData ==
    /\ fetching.pc = "agents"
    /\ thisAgents' = AgentsSeen(getAgentsFile(FileStore))
    /\ fetching' = [pc |-> "activities", order |-> IdsOf(getAgentsFile(FileStore)), acc |-> <<>>]
    /\ UNCHANGED <<thisActivities, handled>>
    /\ ClientStep(Resp("fetchInitialData", "", NULL, 200, <<>>))

\* fetchAllActivities, one turn of its loop: GET /api/agents/:id/activity for
\* the next agent; after the last one sort, keep ten, assign this.activities.
FetchAllActivities ==
    /\ fetching.pc = "activities"
    /\ LET agentId == Head(fetching.order)
           res == getAgentActivityFile(FileStore, agentId)
           acc == fetching.acc \o [i \in DOMAIN res |->
                                      [id |-> res[i].id, agentId |-> agentId,
                                       timestamp |-> res[i].timestamp]]
       IN IF Tail(fetching.order) = <<>>
          THEN /\ thisActivities' = slice(Shown(SortDesc(acc)), FetchKeep)
               /\ fetching' = [pc |-> "done", order |-> <<>>, acc |-> <<>>]
               /\ ClientStep(Resp("fetchAllActivities", agentId, NULL, 200, <<>>))
          ELSE /\ thisActivities' = thisActivities
               /\ fetching' = [fetching EXCEPT !.order = Tail(@), !.acc = acc]
               /\ ClientStep(Resp("fetch activity", agentId, NULL, 200, <<>>))
    /\ UNCHANGED <<thisAgents, handled>>

\* PuppyStation.addActivity as it would be without
\* agent.activities = agent.activities.slice(0, 50).
clientAddActivity_NoSlice(A, agentId, id) ==
    IF \A i \in DOMAIN A.agents : A.agents[i].id # agentId THEN A
    ELSE [agents |-> [i \in DOMAIN A.agents |->
                         IF A.agents[i].id = agentId
                         THEN [A.agents[i] EXCEPT !.activities = <<id>> \o @]
                         ELSE A.agents[i]],
          activities |-> slice(<<[id |-> id, agentId |-> agentId]>> \o A.activities, GlobalKeep)]

\* PuppyStation.addActivity: nothing for an agent the client does not know;
\* else the activity goes to the front of the agent's list and of the global
\* list.
clientAddActivity(A, agentId, id) ==
    IF \A i \in DOMAIN A.agents : A.agents[i].id # agentId THEN A
    ELSE [agents |-> [i \in DOMAIN A.agents |->
                         IF A.agents[i].id = agentId
                         THEN [A.agents[i] EXCEPT !.activities = slice(<<id>> \o @, AgentKeep)]
                         ELSE A.agents[i]],
          activities |-> slice(<<[id |-> id, agentId |-> agentId]>> \o A.activities, GlobalKeep)]

\* handleWebSocketMessage: init replaces this.agents, activity is added, system
\* touches the page only, every other kind has no case.
handleWebSocketMessage(A, data) ==
    CASE data.type = "init" -> [A EXCEPT !.agents = AgentsSeen(data.agents)]
      [] data.type = "activity" -> clientAddActivity(A, data.agentId, data.id)
      [] OTHER -> A

\* ws.onmessage: the next message of the connection.
OnMessage ==
    /\ handled < Len(inbox[1])
    /\ handled' = handled + 1
    /\ LET A == handleWebSocketMessage([agents |-> thisAgents, activities |-> thisActivities],
                                       inbox[1][handled + 1])
       IN /\ thisAgents' = A.agents
          /\ thisActivities' = A.activities
    /\ UNCHANGED fetching
    /\ ClientStep(Resp("onmessage", "", handled + 1, 0, <<>>))

\* setInterval(() => this.fetchSystemMetrics(), 5000): the only periodic fetch
\* of this client; it updates the metrics widgets.
FetchSystemMetrics ==
    /\ UNCHANGED viewer
    /\ ClientStep(Resp("fetchSystemMetrics", "", NULL, 200, <<>>))

(***************************************************************************)
(* SpecViewer: the push client against the flat-file server.               *)
(***************************************************************************)
NextViewer ==
    \/ FileGenerator("zoomie")
    \/ FileConnect(1)
    \/ SocketClosing(1)
    \/ OnClose(1)
    \/ FetchInitialData
    \/ FetchAllActivities
    \/ OnMessage
    \/ FetchSystemMetrics
    \/ Tick

SpecViewer == Init /\ [][NextViewer]_vars

(***************************************************************************)
(* SpecTouch: the writes that touch an agent row, one of each kind, while  *)
(* the clock advances.                                                     *)
(***************************************************************************)
NextTouch ==
    \/ ServerListen
    \/ PostTask("buppy", "t1")
    \/ PostStatus("buppy", "idle")
    \/ PostReview("zoomie", "X?", "high")
    \/ \E reviewId \in ReviewIdInputs : PatchResolve(reviewId)
    \/ Generator("mechly")
    \/ Tick

SpecTouch == Init /\ [][NextTouch]_vars

(***************************************************************************)
(* SpecReview: POST /api/reviews with every shape of body, a priority      *)
(* outside the enum included, and PATCH resolve.                           *)
(***************************************************************************)
PriorityValues == PriorityInputs \cup {"urgent"}

NextReview ==
    \/ ServerListen
    \/ \E a \in AgentInputs \cup {""}, q \in {"", "X?"}, p \in PriorityValues :
          PostReview(a, q, p)
    \/ \E reviewId \in ReviewIdInputs : PatchResolve(reviewId)
    \/ Tick

SpecReview == Init /\ [][NextReview]_vars

(***************************************************************************)
(* SpecPaired: the writes that come with an activity record: reviews       *)
(* (also with a question that makes addReview throw half-way), task and    *)
(* status updates.  Every state is one a read can observe.                 *)
(***************************************************************************)
NextPaired ==
    \/ ServerListen
    \/ \E q \in QuestionInputs : PostReview("buppy", q, "high")
    \/ PostTask("zoomie", "t1")
    \/ PostStatus("mechly", "idle")
    \/ Tick

SpecPaired == Init /\ [][NextPaired]_vars

(***************************************************************************)
(* SpecReject: the four POST routes with complete and incomplete bodies,   *)
(* for an agent and for an id that is no agent, with one connection        *)
(* listening.                                                              *)
(***************************************************************************)
NextReject ==
    \/ ServerListen
    \/ \E id \in AgentInputs, task \in TaskInputs : PostTask(id, task)
    \/ \E id \in AgentInputs, status \in {"", "idle"} : PostStatus(id, status)
    \/ \E id \in AgentInputs, type \in TypeInputs, description \in {"", "did something"} :
          PostActivity(id, type, description)
    \/ \E a \in AgentInputs \cup {""}, q \in {"", "X?"} : PostReview(a, q, "high")
    \/ Connect(1)

SpecReject == Init /\ [][NextReject]_vars

(***************************************************************************)
(* SpecProducers: the producers of both servers taking turns: REST         *)
(* handlers, the file-watcher callback and the timer-driven generator of   *)
(* the SQLite server, and the watcher and generator of the flat-file       *)
(* server on its own files.  Every function they call is synchronous, so   *)
(* a turn is a whole handler.                                              *)
(***************************************************************************)
NextProducers ==
    \/ ServerListen
    \/ PostTask("buppy", "t1")
    \/ PostStatus("zoomie", "idle")
    \/ WatcherChange("mechly", "file_update")
    \/ Generator("buppy")
    \/ FileWatcherChange("buppy", "file_update")
    \/ FileGenerator("zoomie")

SpecProducers == Init /\ [][NextProducers]_vars

(***************************************************************************)
(* SpecSend: every handler that broadcasts, with bodies its write accepts  *)
(* and bodies on which the write throws or finds no row, on both servers.  *)
(***************************************************************************)
NextSend ==
    \/ ServerListen
    \/ \E task \in {"t1", "<obj>"} : PostTask("buppy", task)
    \/ \E status \in {"idle", "<obj>"} : PostStatus("buppy", status)
    \/ \E d \in {"did something", "<obj>"} : PostActivity("buppy", "command", d)
    \/ \E q \in {"X?", "<num>"} : PostReview("buppy", q, "high")
    \/ \E reviewId \in {0, 1} : PatchResolve(reviewId)
    \/ \E a \in AgentInputs : FilePostReview(a, "X?", "high")
    \/ \E reviewId \in {0, 1} : FilePatchResolve(reviewId)

SpecSend == Init /\ [][NextSend]_vars

(***************************************************************************)
(* SpecFed: a push client that has been connected for a while.  Its        *)
(* socket has brought the snapshot and then activity messages for one      *)
(* agent, one short of what the client keeps for an agent; MaxFeed more    *)
(* messages are waiting, for that agent, for another one and for an id     *)
(* that is no agent of the snapshot.  A message carries as id its place    *)
(* on the socket.                                                          *)
(***************************************************************************)
FeedAgents == {"zoomie", "buppy", "ghost"}

\* What has arrived and been handled: init, then AgentKeep - 1 activities.
Arrived ==
    <<InitMsg(getAgentsFile([agents |-> initialAgents, reviews |-> initialReviews]), <<>>)>>
    \o [i \in 1..(AgentKeep - 1) |-> ActivityMsg("zoomie", i + 1)]

\* The client after it has handled them: every agent of the snapshot, the
\* one agent with the ids of its activities, newest first; the global list
\* with the newest GlobalKeep of them.
FedAgents ==
    [i \in DOMAIN Arrived[1].agents |->
        [id |-> Arrived[1].agents[i].id,
         activities |-> IF Arrived[1].agents[i].id = "zoomie"
                        THEN [k \in 1..(AgentKeep - 1) |-> Len(Arrived) + 1 - k] ELSE <<>>,
         status |-> "", current_task |-> ""]]

FedActivities == [k \in 1..GlobalKeep |-> [id |-> Len(Arrived) + 1 - k, agentId |-> "zoomie"]]

InitFed ==
    /\ agents = Seeded.agents
    /\ activities = Seeded.activities
    /\ reviews = Seeded.reviews
    /\ now = 0
    /\ started = FALSE
    /\ clients = {1}
    /\ readyState = [c \in Conns |-> IF c = 1 THEN "OPEN" ELSE "CONNECTING"]
    /\ \E feed \in [1..MaxFeed -> FeedAgents] :
          inbox = [c \in Conns |->
                     IF c = 1
                     THEN Arrived \o [k \in 1..MaxFeed |-> ActivityMsg(feed[k], Len(Arrived) + k)]
                     ELSE <<>>]
    /\ sent = Tail(inbox[1])
    /\ resp = Resp("onmessage", "", Len(Arrived), 0, <<>>)
    /\ agentsJson = initialAgents
    /\ reviewsJson = initialReviews
    /\ thisAgents = FedAgents
    /\ thisActivities = FedActivities
    /\ fetching = [pc |-> "done", order |-> <<>>, acc |-> <<>>]
    /\ handled = Len(Arrived)
    /\ cacheAgents = <<>>
    /\ cacheActivities = <<>>
    /\ cacheReviews = <<>>
    /\ rendered = {}
    /\ polling = "refresh agents"
    /\ cycles = <<>>
    /\ applied = [agents |-> 0, activities |-> 0, reviews |-> 0]
    /\ wsSockets = <<"OPEN">>
    /\ wsErrored = {}
    /\ wsTimers = <<>>

NextFed == OnMessage

SpecFed == InitFed /\ [][NextFed]_vars

(***************************************************************************)
(* SpecViewerSql: the push client on a connection of the SQLite server,    *)
(* which emits task_update, status_update, review and review-resolved      *)
(* beside activity.                                                        *)
(***************************************************************************)
NextViewerSql ==
    \/ ServerListen
    \/ PostTask("buppy", "t1")
    \/ PostStatus("buppy", "idle")
    \/ PostReview("buppy", "X?", "high")
    \/ \E reviewId \in ReviewIdInputs : PatchResolve(reviewId)
    \/ Connect(1)
    \/ OnMessage

SpecViewerSql == Init /\ [][NextViewerSql]_vars

(***************************************************************************)
(* The push client's connection handling (connectWebSocket).  W is         *)
(* [sockets, errored, timers]; the constructor has called                  *)
(* connectWebSocket once.  A browser fires close once per socket, whether  *)
(* or not an error came first.                                             *)
(***************************************************************************)
ReconnectDelay == 3000   \* setTimeout(() => this.connectWebSocket(), 3000)

Sockets == [sockets |-> wsSockets, errored |-> wsErrored, timers |-> wsTimers]

\* this.ws = new WebSocket(wsUrl)
connectWebSocket(W) == [W EXCEPT !.sockets = Append(@, "CONNECTING")]

\* ws.onopen
onopen(W, i) == [W EXCEPT !.sockets[i] = "OPEN"]

\* ws.onerror as it would be if it scheduled a reconnect too.
onerror_Reconnect(W, i) ==
    [W EXCEPT !.errored = @ \cup {i}, !.timers = Append(@, ReconnectDelay)]

\* ws.onerror: console.error, nothing else.
onerror(W, i) == [W EXCEPT !.errored = @ \cup {i}]

\* ws.onclose: one reconnect timeout.
onclose(W, i) == [W EXCEPT !.sockets[i] = "CLOSED", !.timers = Append(@, ReconnectDelay)]

SocketStep(W) ==
    /\ wsSockets' = W.sockets
    /\ wsErrored' = W.errored
    /\ wsTimers' = W.timers
    /\ UNCHANGED <<agents, activities, reviews, now, started, clients, readyState, inbox, sent, resp,
                   file, viewer, poller>>

WsOpen(i) ==
    /\ wsSockets[i] = "CONNECTING"
    /\ i \notin wsErrored
    /\ SocketStep(onopen(Sockets, i))

\* The error event of a socket that is about to close.
WsError(i) ==
    /\ wsSockets[i] # "CLOSED"
    /\ i \notin wsErrored
    /\ SocketStep(onerror(Sockets, i))

\* The close event: a failed attempt, a lost connection or a closed one.
WsClose(i) ==
    /\ wsSockets[i] # "CLOSED"
    /\ SocketStep(onclose(Sockets, i))

\* A reconnect timeout expires: connectWebSocket.
ReconnectTimer ==
    /\ wsTimers # <<>>
    /\ Len(wsSockets) < MaxAttempts
    /\ SocketStep(connectWebSocket([Sockets EXCEPT !.timers = Tail(@)]))

NextReconnect ==
    \/ \E i \in DOMAIN wsSockets : WsOpen(i)
    \/ \E i \in DOMAIN wsSockets : WsError(i)
    \/ \E i \in DOMAIN wsSockets : WsClose(i)
    \/ ReconnectTimer

SpecReconnect == Init /\ [][NextReconnect]_vars

(***************************************************************************)
(* The polling client (unnamed/part_002, lines 1-297), served by the       *)
(* SQLite server.  Each fetch with the use of its answer is one step; the  *)
(* awaits between the fetches let server handlers run in between.          *)
(***************************************************************************)
PollLimit == <<"2", "0">>   \* fetch('/api/activities?limit=20')

\* The poll callback as it would be without the JSON.stringify test.
applyPoll_Always(cache, fetched, view) == [cache |-> fetched, rendered |-> {view}]

\* The poll callback on one projection: the cache is replaced and the view
\* rendered only if JSON.stringify of the answer differs from that of the cache.
applyPoll(cache, fetched, view) ==
    IF fetched # cache THEN [cache |-> fetched, rendered |-> {view}]
    ELSE [cache |-> cache, rendered |-> {}]

\* The handlers of the polling client leave the server and the push client alone.
PollerStep(r) ==
    /\ started
    /\ resp' = r
    /\ UNCHANGED <<cycles, applied>>
    /\ UNCHANGED <<agents, activities, reviews, now, started, clients, readyState, inbox, sent, file,
                   viewer, reconnect>>

\* refreshAllData: agents = the answer of GET /api/agents; renderAgents().
RefreshAgents ==
    /\ polling = "refresh agents"
    /\ cacheAgents' = getAllAgents(Store)
    /\ rendered' = rendered \cup {"agents"}
    /\ polling' = "refresh activities"
    /\ UNCHANGED <<cacheActivities, cacheReviews>>
    /\ PollerStep(Resp("refresh agents", "", NULL, 200, <<>>))

\* refreshAllData: activities = the answer of GET /api/activities?limit=20.
RefreshActivities ==
    /\ polling = "refresh activities"
    /\ \E fetched \in GetActivities(Store, PollLimit) :
          /\ cacheActivities' = fetched
          /\ PollerStep(Resp("refresh activities", "", NULL, 200, <<>>))
    /\ rendered' = rendered \cup {"activities"}
    /\ polling' = "refresh reviews"
    /\ UNCHANGED <<cacheAgents, cacheReviews>>

\* refreshAllData: reviews = the answer of GET /api/reviews; then init calls
\* startLivePolling, which arms the 5 s timer.
RefreshReviews ==
    /\ polling = "refresh reviews"
    /\ \E fetched \in getPendingReviews(Store) :
          /\ cacheReviews' = fetched
          /\ PollerStep(Resp("refresh reviews", "", NULL, 200, <<>>))
    /\ rendered' = rendered \cup {"reviews"}
    /\ polling' = "idle"
    /\ UNCHANGED <<cacheAgents, cacheActivities>>

\* The poll callback, first fetch: the timer fires, /api/activities?limit=20.
PollActivities ==
    /\ polling = "idle"
    /\ \E fetched \in GetActivities(Store, PollLimit) :
          LET a == applyPoll(cacheActivities, fetched, "activities")
          IN /\ cacheActivities' = a.cache
             /\ rendered' = a.rendered
             /\ PollerStep(Resp("poll activities", "", NULL, 200, <<>>))
    /\ polling' = "poll agents"
    /\ UNCHANGED <<cacheAgents, cacheReviews>>

\* The poll callback, second fetch: /api/agents.
PollAgents ==
    /\ polling = "poll agents"
    /\ LET fetched == getAllAgents(Store)
           a == applyPoll(cacheAgents, fetched, "agents")
       IN /\ cacheAgents' = a.cache
          /\ rendered' = rendered \cup a.rendered
          /\ PollerStep(Resp("poll agents", "", NULL, 200, <<>>))
    /\ polling' = "poll reviews"
    /\ UNCHANGED <<cacheActivities, cacheReviews>>

\* The poll callback, third fetch: /api/reviews.
PollReviews ==
    /\ polling = "poll reviews"
    /\ \E fetched \in getPendingReviews(Store) :
          LET a == applyPoll(cacheReviews, fetched, "reviews")
          IN /\ cacheReviews' = a.cache
             /\ rendered' = rendered \cup a.rendered
             /\ PollerStep(Resp("poll reviews", "", NULL, 200, <<>>))
    /\ polling' = "idle"
    /\ UNCHANGED <<cacheAgents, cacheActivities>>

(***************************************************************************)
(* SpecPoll: the polling client against the SQLite server, on which one    *)
(* review is posted.                                                       *)
(***************************************************************************)
NextPoll ==
    \/ ServerListen
    \/ (Len(reviews) = Len(Seeded.reviews) /\ PostReview("buppy", "X?", "high"))
    \/ RefreshAgents
    \/ RefreshActivities
    \/ RefreshReviews
    \/ PollActivities
    \/ PollAgents
    \/ PollReviews
    \/ Tick

SpecPoll == Init /\ [][NextPoll]_vars

(***************************************************************************)
(* The poll callback with its awaits.  setInterval calls the callback      *)
(* every five seconds whether or not an earlier run has returned; a run    *)
(* awaits fetch() three times, and between the server's reading of the     *)
(* store and the arrival of the answer at the client other runs and other  *)
(* handlers take their turns.  The store a fetch was answered from is      *)
(* told by the number of activity rows it held: every write logs one.      *)
(***************************************************************************)
StoreAsOf(S) == Len(S.activities)

Awaiting(pc) == [pc |-> pc, at |-> "sent", body |-> <<>>, asOf |-> 0]

NextFetch(pc) ==
    CASE pc = "activities" -> Awaiting("agents")
      [] pc = "agents" -> Awaiting("reviews")
      [] OTHER -> [pc |-> "done", at |-> "done", body |-> <<>>, asOf |-> 0]

\* The steps of the runs leave the server and the push client alone.
CycleStep(r) ==
    /\ started
    /\ resp' = r
    /\ UNCHANGED <<agents, activities, reviews, now, started, clients, readyState, inbox, sent, file,
                   viewer, reconnect, polling>>

\* The 5 s timer fires: a run of the callback starts and sends its first fetch.
PollTimer ==
    /\ polling = "idle"
    /\ Len(cycles) < MaxCycles
    /\ cycles' = Append(cycles, Awaiting("activities"))
    /\ rendered' = {}
    /\ UNCHANGED <<cacheAgents, cacheActivities, cacheReviews, applied>>
    /\ CycleStep(Resp("poll timer", "", Len(cycles) + 1, 0, <<>>))

\* Of the answers a query may give, those that have the rows of one second
\* in rowid order.
InRowidOrder(answers) ==
    {a \in answers : \A i, j \in DOMAIN a :
                        (i < j /\ a[i].timestamp = a[j].timestamp) => a[i].id < a[j].id}

\* app.get('/api/activities'), app.get('/api/agents'), app.get('/api/reviews'):
\* the server answers the fetch of run c from the store as it is now.  Rows
\* of one second come in rowid order here, one of the orders the engine may
\* produce: what the runs do to each other does not depend on it.
ServeFetch(c) ==
    /\ cycles[c].at = "sent"
    /\ \E body \in CASE cycles[c].pc = "activities" ->
                          InRowidOrder(GetActivities(Store, PollLimit))
                     [] cycles[c].pc = "agents" -> {getAllAgents(Store)}
                     [] OTHER -> getPendingReviews(Store) :
          cycles' = [cycles EXCEPT ![c] = [@ EXCEPT !.at = "answered", !.body = body,
                                                    !.asOf = StoreAsOf(Store)]]
    /\ UNCHANGED <<cacheAgents, cacheActivities, cacheReviews, rendered, applied>>
    /\ CycleStep(Resp("GET " \o cycles[c].pc, "", c, 200, <<>>))

\* The answer arrives and the run goes on after its await: the JSON.stringify
\* test, the assignment and the render, then the next fetch.
ApplyFetch(c) ==
    /\ cycles[c].at = "answered"
    /\ LET pc == cycles[c].pc
           cache == CASE pc = "activities" -> cacheActivities
                      [] pc = "agents" -> cacheAgents
                      [] OTHER -> cacheReviews
           a == applyPoll(cache, cycles[c].body, pc)
       IN /\ cacheActivities' = IF pc = "activities" THEN a.cache ELSE cacheActivities
          /\ cacheAgents' = IF pc = "agents" THEN a.cache ELSE cacheAgents
          /\ cacheReviews' = IF pc = "reviews" THEN a.cache ELSE cacheReviews
          /\ rendered' = rendered \cup a.rendered
          /\ applied' = IF a.cache # cache THEN [applied EXCEPT ![pc] = cycles[c].asOf]
                        ELSE applied
          /\ cycles' = [cycles EXCEPT ![c] = NextFetch(pc)]
          /\ CycleStep(Resp("apply " \o pc, "", c, 200, <<>>))

(***************************************************************************)
(* SpecOverlap: the polling client with runs of the poll callback that     *)
(* overlap, while one status update reaches the server.                    *)
(***************************************************************************)
NextOverlap ==
    \/ ServerListen
    \/ (agents["buppy"].status = "active" /\ PostStatus("buppy", "idle"))
    \/ RefreshAgents
    \/ RefreshActivities
    \/ RefreshReviews
    \/ PollTimer
    \/ \E c \in DOMAIN cycles : ServeFetch(c)
    \/ \E c \in DOMAIN cycles : ApplyFetch(c)

SpecOverlap == Init /\ [][NextOverlap]_vars

(***************************************************************************)
(* SpecFile: the flat-file server with its producers and connections.      *)
(***************************************************************************)
NextFile ==
    \/ \E a \in AgentInputs, q \in QuestionInputs \ {"<num>"}, p \in PriorityInputs :
          FilePostReview(a, q, p)
    \/ \E reviewId \in {r.id : r \in Range(reviewsJson)} \cup {0} : FilePatchResolve(reviewId)
    \/ FileWatcherChange("zoomie", "file_update")
    \/ FileGenerator("buppy")
    \/ \E a \in AgentInputs : ExportedAddActivity(a, "command", "did something")
    \/ FileConnect(1)
    \/ SocketClosing(1)
    \/ OnClose(1)
    \/ Tick

SpecFile == Init /\ [][NextFile]_vars

(***************************************************************************)
(* Properties.                                                             *)
(***************************************************************************)
Unchanged == UNCHANGED <<agents, activities, reviews, sent, inbox>>

OpenConns == {c \in clients : readyState[c] = "OPEN"}

ActivitiesOf(S, type, reviewId) ==
    {i \in DOMAIN S.activities : S.activities[i].type = type /\ S.activities[i].review_id = reviewId}

\* C1: resolving a review that is already resolved, or an id that is no
\* review, is answered 404 and leaves the review rows, the activity log and
\* the broadcast stream as they were.
C1_ResolveResolvedFails ==
    [][\A id \in ReviewIdInputs :
          (/\ resp'.op = "PATCH resolve"
           /\ resp'.id = id
           /\ \/ reviewIndex(Store, id) = 0
              \/ reviews[reviewIndex(Store, id)].status = "resolved")
          => (resp'.status = 404 /\ Unchanged)]_vars

\* C2: every review is pending or resolved, resolved_at is set exactly when it
\* is resolved, a resolved review stays resolved, and a resolved_at that is set
\* never changes.
C2_ReviewLifecycle ==
    /\ [](\A i \in DOMAIN reviews :
            /\ reviews[i].status \in {"pending", "resolved"}
            /\ (reviews[i].resolved_at # NULL) <=> (reviews[i].status = "resolved"))
    /\ [][\A i \in DOMAIN reviews :
            /\ i \in DOMAIN reviews'
            /\ reviews'[i].id = reviews[i].id
            /\ reviews[i].status = "resolved" => reviews'[i].status = "resolved"
            /\ reviews[i].resolved_at # NULL => reviews'[i].resolved_at = reviews[i].resolved_at]_vars

\* C3: every review has exactly one review_created record for its agent, one
\* review_resolved record if it is resolved and none if it is pending, and
\* every such record belongs to a review.
C3_ReviewsPairedWithLog ==
    /\ \A i \in DOMAIN reviews :
          LET r == reviews[i]
              mine(type) == {j \in ActivitiesOf(Store, type, r.id) :
                                activities[j].agent_id = r.agent_id}
          IN /\ Cardinality(mine("review_created")) = 1
             /\ Cardinality(mine("review_resolved")) = IF r.status = "resolved" THEN 1 ELSE 0
    /\ \A j \in DOMAIN activities :
          activities[j].type \in {"review_created", "review_resolved"}
          => \E i \in DOMAIN reviews :
                /\ reviews[i].id = activities[j].review_id
                /\ reviews[i].agent_id = activities[j].agent_id
                /\ activities[j].type = "review_resolved" => reviews[i].status = "resolved"

\* What a handler made every open connection receive, in order.
Delivered(msgs) == \A c \in OpenConns : inbox'[c] = inbox[c] \o msgs

LastActivity == activities'[Len(activities')]

\* C4: a successful POST task logs one task_update record and emits
\* task_update and then the activity message of that record, both delivered
\* to every open connection in that order.
C4_TaskUpdateThenActivity ==
    [][(resp'.op = "POST task" /\ resp'.status = 200)
       => /\ Len(activities') = Len(activities) + 1
          /\ LastActivity.type = "task_update"
          /\ LastActivity.agent_id = resp'.agentId
          /\ Delivered(<<TaskMsg(resp'.agentId, agents'[resp'.agentId].current_task),
                       ActivityMsg(resp'.agentId, LastActivity.id)>>)]_vars

\* C5: a successful POST status logs one status_change record and emits
\* status_update and then the activity message of that record: every open
\* connection receives status_update before activity.
C5_StatusUpdateThenActivity ==
    [][(resp'.op = "POST status" /\ resp'.status = 200)
       => /\ Len(activities') = Len(activities) + 1
          /\ LastActivity.type = "status_change"
          /\ LastActivity.agent_id = resp'.agentId
          /\ Delivered(<<StatusMsg(resp'.agentId, agents'[resp'.agentId].status),
                       ActivityMsg(resp'.agentId, LastActivity.id)>>)]_vars

\* The records inserted since the server started listening (the seed's are
\* inserted by initDb, before it).
InsertedSinceStartup == {i \in DOMAIN activities : i > Len(Seeded.activities)}

ActivityMsgsFor(i) ==
    {k \in DOMAIN sent : sent[k] = ActivityMsg(activities[i].agent_id, activities[i].id)}

\* C6: every record inserted since startup has exactly one activity message
\* carrying its id and agentId, and there are as many activity messages as
\* such records.
C6_OneActivityMsgPerInsert ==
    /\ \A i \in InsertedSinceStartup : Cardinality(ActivityMsgsFor(i)) = 1
    /\ Cardinality({k \in DOMAIN sent : sent[k].type = "activity"})
          = Cardinality(InsertedSinceStartup)

LoggingOps == {"POST activity", "logAgentActivity", "watcher", "generator", "listen"}

\* C7: logging an activity for an id that is no agent fails and the caller is
\* told so (logActivity throws; the REST handler answers 404, or 400 when the
\* body is malformed as well; logAgentActivity returns null), no record is
\* inserted, no agent row changes and nothing is broadcast.
C7_UnknownAgentRejected ==
    [][/\ \A a \in AgentInputs \ DOMAIN agents :
             LET r == logActivity(Store, a, "command", "did something", NULL, now)
             IN r.threw /\ r.S = Store
       /\ (resp'.op \in LoggingOps /\ resp'.agentId \notin DOMAIN agents)
          => /\ Unchanged
             /\ resp'.op = "POST activity" => resp'.status \in {400, 404}
             /\ resp'.op # "POST activity" => resp'.id = NULL]_vars

\* C7 witness: logAgentActivity was called for an id that is no agent.
C7_Witness ==
    /\ resp.op = "logAgentActivity"
    /\ resp.agentId \notin DOMAIN agents
    /\ resp.id = NULL

WriteOps == {"POST task", "POST status", "POST review", "PATCH resolve"}

\* C8: a write operation that fails (answers an error) leaves the store and
\* the broadcast stream exactly as before the call.
C8_WritesAllOrNothing ==
    [][(resp'.op \in WriteOps /\ resp'.status >= 400) => Unchanged]_vars

\* C9: every agent's status is active, idle or busy, and a POST status with
\* another value is answered 400 and changes nothing.
C9_StatusInEnum ==
    /\ [](\A a \in DOMAIN agents : agents[a].status \in Statuses)
    /\ [][\A id \in AgentInputs, status \in StatusInputs \ (Statuses \cup {""}) :
             PostStatus(id, status) => (resp'.status = 400 /\ Unchanged)]_vars

\* timestamp DESC, id DESC
TotalOrder(rows) ==
    \A i, j \in DOMAIN rows :
        i < j => \/ rows[i].timestamp > rows[j].timestamp
                 \/ rows[i].timestamp = rows[j].timestamp /\ rows[i].id > rows[j].id

\* C10: both activity queries return their rows by timestamp descending, id
\* descending among equal timestamps, so agentActivities(id, 1) is exactly
\* the record logged last for that agent.
C10_NewestFirst ==
    /\ \A a \in DOMAIN agents :
          \A rows \in getAgentActivities(Store, a, 1) :
              IdsOf(rows) = <<Max({activities[i].id : i \in {j \in DOMAIN activities :
                                                             activities[j].agent_id = a}})>>
    /\ \A a \in DOMAIN agents : \A rows \in getAgentActivities(Store, a, 20) : TotalOrder(rows)
    /\ \A rows \in getRecentActivities(Store, 20) : TotalOrder(rows)

\* C11: retention is bounded.  After every insert (so also after N+5 inserts
\* for one agent) agentActivities(id, N+5) returns at most N records, N the
\* retention bound.
C11_RetentionBounded ==
    \A a \in DOMAIN agents :
        \A rows \in getAgentActivities(Store, a, RetentionBound + 5) :
            Len(rows) <= RetentionBound

\* The limit the claim lets a query value stand for: the number when it is a
\* positive number, the default otherwise (zero, negative, non-numeric).
EffectiveLimit(q) ==
    LET n == parseInt(q)
    IN IF n.isNaN \/ n.value <= 0 THEN DefaultLimit ELSE n.value

\* C12: GET /activities?limit= never returns more records than the effective
\* limit, for every query value (a number, zero, negative, non-numeric,
\* absent).
C12_NeverMoreThanLimit ==
    \A q \in LimitInputs :
        \A rows \in GetActivities(Store, q) : Len(rows) <= EffectiveLimit(q)

\* keys[i] = <<rank, -created>> of the i-th review returned: rank ascending,
\* newest first within a rank.
ByPriorityThenNewest(keys) ==
    \A i, j \in DOMAIN keys : i < j => ~KeyLess(keys[j], keys[i])

PendingSql == {r \in Range(reviews) : r.status = "pending"}

\* The relational backend's pendingReviews(): exactly the pending reviews, by
\* priority rank and then newest first.
PendingByPrioritySql ==
    \A rows \in getPendingReviews(Store) :
        /\ Range(rows) = PendingSql
        /\ Len(rows) = Cardinality(PendingSql)
        /\ ByPriorityThenNewest([i \in DOMAIN rows |->
                                    <<priorityRank(rows[i].priority), -rows[i].created_at>>])

\* The flat-file backend's GET /reviews: the same contract.
PendingByPriorityFile ==
    LET rows == getReviewsFile(FileStore)
    IN /\ \A i \in DOMAIN rows : rows[i].status = "pending"
       /\ Len(rows) = Cardinality({i \in DOMAIN reviewsJson : reviewsJson[i].status = "pending"})
       /\ ByPriorityThenNewest([i \in DOMAIN rows |->
                                   <<priorityRank(rows[i].priority), -rows[i].timestamp>>])

\* C13: pendingReviews() / GET /reviews returns exactly the pending reviews,
\* sorted by priority rank (high, medium, low, other) and by creation time
\* descending within a rank, in both backends.
C13_PendingByPriority == PendingByPrioritySql /\ PendingByPriorityFile

\* The relational backend's ids: the i-th record inserted has id i.
DenseIdsSql == \A i \in DOMAIN activities : activities[i].id = i

\* The flat-file backend's ids: no two records share an id, and in an agent's
\* list (newest first) the ids decrease strictly.
DistinctIdsFile ==
    /\ \A a \in DOMAIN agentsJson :
          LET acts == agentsJson[a].activities
          IN \A i, j \in DOMAIN acts : i < j => acts[i].id > acts[j].id
    /\ \A a, b \in DOMAIN agentsJson :
          a # b => {r.id : r \in Range(agentsJson[a].activities)}
                      \cap {r.id : r \in Range(agentsJson[b].activities)} = {}

\* C14: the records of any number of logging calls, for one agent or for
\* several, have pairwise distinct identities that increase strictly in
\* insertion order (without gaps where the store numbers them), in both
\* backends.
C14_DistinctIncreasingIds == DenseIdsSql /\ DistinctIdsFile

\* The messages the step gave to broadcast().
Emitted == SubSeq(sent', Len(sent) + 1, Len(sent'))

\* The connections of the live set to which nothing can be delivered.
FailedConns == {c \in clients : readyState[c] # "OPEN"}

\* C15: when a broadcast cannot be delivered to a connection of the live set,
\* that connection is removed from the set, every open connection still gets
\* the message, and the handler that wrote answers success.
C15_FailedDeliveryRemoves ==
    [][(sent' # sent /\ FailedConns # {})
       => /\ FailedConns \cap clients' = {}
          /\ Delivered(Emitted)
          /\ resp'.status < 500]_vars

\* C16: what a connection has received after its snapshot is a run of
\* consecutive messages of the emission order, in that order.
C16_FifoPerConnection ==
    \A c \in Conns :
        inbox[c] # <<>> =>
            \E k \in 0..Len(sent) : \E m \in k..Len(sent) :
                Tail(inbox[c]) = SubSeq(sent, k + 1, m)

\* C16 witness: a connection has received several messages and emission has
\* gone on after it stopped receiving.
C16_Witness ==
    \E c \in Conns :
        /\ Len(inbox[c]) >= 3
        /\ readyState[c] # "OPEN"
        /\ inbox[c][Len(inbox[c])] # sent[Len(sent)]

\* C17: a step that emits messages hands each of them exactly once, in
\* order, to every connection that is open, and nothing to the others.
C17_EveryOpenConnectionOnce ==
    [][sent' # sent
       => \A c \in Conns :
             inbox'[c] = IF c \in clients /\ readyState[c] = "OPEN"
                         THEN inbox[c] \o Emitted ELSE inbox[c]]_vars

\* C17 witness: two connections are open and both have received the message
\* emitted last.
C17_Witness ==
    /\ sent # <<>>
    /\ \E c, d \in Conns :
          /\ c # d
          /\ readyState[c] = "OPEN" /\ readyState[d] = "OPEN"
          /\ Len(inbox[c]) >= 2 /\ Len(inbox[d]) >= 2
          /\ inbox[c][Len(inbox[c])] = sent[Len(sent)]
          /\ inbox[d][Len(inbox[d])] = sent[Len(sent)]

InitMsgs(c) == {i \in DOMAIN inbox[c] : inbox[c][i].type = "init"}

\* C18: a connection receives exactly one init message, at connect time, and
\* its content is the store at that moment: every agent with its status and
\* task, and exactly the reviews that are pending.
C18_InitSnapshotOnConnect ==
    /\ [](\A c \in Conns :
            Cardinality(InitMsgs(c)) = IF readyState[c] = "CONNECTING" THEN 0 ELSE 1)
    /\ [][\A c \in Conns :
            (readyState[c] = "CONNECTING" /\ readyState'[c] = "OPEN")
            => LET m == inbox'[c][Len(inbox'[c])]
               IN /\ Len(inbox'[c]) = Len(inbox[c]) + 1
                  /\ m.type = "init"
                  /\ {a.id : a \in Range(m.agents)} = DOMAIN agents
                  /\ \A a \in Range(m.agents) :
                        /\ a.status = agents[a.id].status
                        /\ a.current_task = agents[a.id].current_task
                  /\ Range(m.reviews) = {r \in Range(reviews) : r.status = "pending"}]_vars

\* C18 witness: a connection got its snapshot after an agent's status had
\* changed and a review had been resolved.
C18_Witness ==
    \E c \in Conns :
        /\ inbox[c] # <<>>
        /\ inbox[c][1].type = "init"
        /\ \E a \in Range(inbox[c][1].agents) : a.status = "idle"
        /\ Cardinality(Range(inbox[c][1].reviews)) < Len(reviews)


\* The record of a shown activity is still in its agent's list of the file.
InStoreFile(x) ==
    \E k \in DOMAIN agentsJson[x.agentId].activities :
        agentsJson[x.agentId].activities[k].id = x.id

\* C19: when the response of a fetch is applied, every activity that a push
\* message had put in the client's list, and that the store still holds, is
\* still in the list: the older snapshot does not overwrite the pushed state.
C19_PollKeepsPushedState ==
    [][(fetching.pc = "activities" /\ fetching'.pc = "done") =>
          \A i \in DOMAIN thisActivities :
              InStoreFile(thisActivities[i]) =>
                  \E j \in DOMAIN thisActivities' : thisActivities'[j] = thisActivities[i]]_vars

\* What fetchAllActivities yields from the store F when nothing changes
\* under it.
RECURSIVE Gathered(_, _)
Gathered(F, order) ==
    IF order = <<>> THEN <<>>
    ELSE LET res == getAgentActivityFile(F, Head(order))
         IN [i \in DOMAIN res |-> [id |-> res[i].id, agentId |-> Head(order),
                                   timestamp |-> res[i].timestamp]]
            \o Gathered(F, Tail(order))

ProjectedActivities(F) == slice(Shown(SortDesc(Gathered(F, IdsOf(getAgentsFile(F))))), FetchKeep)

\* C20: with the push connection not open, a periodic fetch of the client
\* that succeeds after its initial load leaves the client's agents and
\* activities equal to the store's current projections.
C20_PollingAloneConverges ==
    [][(FetchSystemMetrics /\ fetching.pc = "done" /\ readyState[1] # "OPEN") =>
          LET F == [agents |-> agentsJson', reviews |-> reviewsJson']
          IN /\ thisAgents' = AgentsSeen(getAgentsFile(F))
             /\ thisActivities' = ProjectedActivities(F)]_vars


\* seq is an answer of GET /api/activities?limit=20 on the store: the newest
\* joined rows, each once, newest first.
RecentAnswer(seq) ==
    LET rows == {r \in Range(activities) : r.agent_id \in DOMAIN agents}
        n == parseInt(PollLimit).value
    IN /\ Len(seq) = IF Cardinality(rows) < n THEN Cardinality(rows) ELSE n
       /\ Range(seq) \subseteq rows
       /\ \A i, j \in DOMAIN seq :
              i < j => seq[i] # seq[j] /\ seq[i].timestamp >= seq[j].timestamp
       /\ \A r \in rows \ Range(seq) : \A i \in DOMAIN seq : seq[i].timestamp >= r.timestamp

\* C21: each fetch of a poll leaves its cache equal to the projection it
\* fetched and renders its view exactly when that changed the cache: a fetch
\* that returns the cached content changes nothing and renders nothing, and
\* the other two caches are untouched.
C21_PollReplacesOnlyOnChange ==
    [][/\ (polling = "idle" /\ polling' = "poll agents") =>
            /\ RecentAnswer(cacheActivities')
            /\ rendered' = IF cacheActivities' = cacheActivities THEN {} ELSE {"activities"}
            /\ UNCHANGED <<cacheAgents, cacheReviews>>
       /\ (polling = "poll agents" /\ polling' = "poll reviews") =>
            /\ cacheAgents' = getAllAgents(Store)
            /\ rendered' = IF cacheAgents' = cacheAgents THEN rendered
                           ELSE rendered \cup {"agents"}
            /\ UNCHANGED <<cacheActivities, cacheReviews>>
       /\ (polling = "poll reviews" /\ polling' = "idle") =>
            /\ cacheReviews' \in getPendingReviews(Store)
            /\ rendered' = IF cacheReviews' = cacheReviews THEN rendered
                           ELSE rendered \cup {"reviews"}
            /\ UNCHANGED <<cacheAgents, cacheActivities>>]_vars

\* C21 witness: a poll has ended that found new activities and changed agents
\* and rendered those two views, and found the reviews equal to the cache.
C21_Witness ==
    /\ polling = "idle"
    /\ resp.op = "poll reviews"
    /\ rendered = {"activities", "agents"}


\* The sockets of the client whose close event has not fired.
LiveSockets == {i \in DOMAIN wsSockets : wsSockets[i] # "CLOSED"}

\* C22: the client has at every moment exactly one socket that has not closed
\* or one pending reconnect timeout, never more; every close of a socket,
\* with or without an error event before it and whatever the number of
\* earlier attempts, schedules one reconnect, and every timeout is 3000 ms.
C22_OneReconnectInFlight ==
    /\ [](Cardinality(LiveSockets) + Len(wsTimers) = 1)
    /\ [](\A k \in DOMAIN wsTimers : wsTimers[k] = ReconnectDelay)
    /\ [][\A i \in DOMAIN wsSockets :
            (wsSockets[i] # "CLOSED" /\ wsSockets'[i] = "CLOSED")
            => wsTimers' = Append(wsTimers, ReconnectDelay)]_vars
    /\ [][Len(wsSockets') > Len(wsSockets)
            => /\ wsTimers # <<>>
               /\ wsTimers' = Tail(wsTimers)
               /\ wsSockets' = Append(wsSockets, "CONNECTING")]_vars

\* C22 witness: the third socket, after one socket that closed with an error
\* event and one that closed without, has had its error event and its close
\* event, and its reconnect is pending.
C22_Witness ==
    /\ Len(wsSockets) = 3
    /\ wsSockets[3] = "CLOSED"
    /\ wsErrored = {1, 3}
    /\ wsTimers = <<ReconnectDelay>>


\* The client's copy of the agent with this id, if it has one.
SeenAgent(A, id) == {A[i] : i \in {j \in DOMAIN A : A[j].id = id}}

\* C23: the client applies every message its connection delivers: init gives
\* it every agent with status and task, activity puts the record at the front
\* of its list, status_update and task_update replace the field of the agent
\* with that id, review and review-resolved change the state it keeps.
C23_ClientAppliesEveryKind ==
    [][handled' = handled + 1 =>
          LET m == inbox[1][handled']
          IN /\ m.type = "init" =>
                   \A i \in DOMAIN m.agents :
                       \E a \in SeenAgent(thisAgents', m.agents[i].id) :
                           /\ a.status = m.agents[i].status
                           /\ a.current_task = m.agents[i].current_task
             /\ m.type = "activity" =>
                   /\ thisActivities' # <<>>
                   /\ thisActivities'[1] = [id |-> m.id, agentId |-> m.agentId]
             /\ m.type = "status_update" =>
                   \E a \in SeenAgent(thisAgents', m.agentId) : a.status = m.status
             /\ m.type = "task_update" =>
                   \E a \in SeenAgent(thisAgents', m.agentId) : a.current_task = m.task
             /\ m.type \in {"review", "review-resolved"} =>
                   <<thisAgents', thisActivities'>> # <<thisAgents, thisActivities>>]_vars


\* The activity rows the step inserted.
NewActivities == {activities'[i] : i \in (DOMAIN activities') \ (DOMAIN activities)}

\* C24: an agent's updated_at never decreases, and every write to the agent's
\* row leaves it at the current time: updateAgentTask, updateAgentStatus and
\* every activity logged for the agent, those of addReview and resolveReview
\* included.
C24_UpdatedAtMonotone ==
    [][/\ \A a \in DOMAIN agents :
             /\ a \in DOMAIN agents'
             /\ agents'[a].updated_at >= agents[a].updated_at
             /\ agents'[a] # agents[a] => agents'[a].updated_at = now
             /\ updateAgentStatus(Store, a, "idle", now).S.agents[a].updated_at = now
             /\ updateAgentTask(Store, a, "t1", now).S.agents[a].updated_at = now
       /\ \A r \in NewActivities : agents'[r.agent_id].updated_at = now]_vars

\* C24 witness: after the clock has advanced, a review of zoomie's has been
\* resolved and zoomie's row carries the new time, while an agent that nothing
\* was written for carries the old one.
C24_Witness ==
    /\ now > 0
    /\ resp.op = "PATCH resolve"
    /\ resp.status = 200
    /\ agents["zoomie"].updated_at = now
    /\ \E a \in DOMAIN agents : agents[a].updated_at < now


\* C25: POST /reviews for an unknown agent is answered 404 and with an empty
\* question 400, and neither inserts a review or an activity nor emits
\* anything; a success inserts one pending review whose priority is high,
\* medium or low (medium when omitted); every stored review has a priority of
\* that enum.
C25_AddReviewValidated ==
    /\ [](\A r \in Range(reviews) : r.priority \in Priorities)
    /\ [][\A a \in AgentInputs, q \in {"", "X?"}, p \in PriorityValues :
             PostReview(a, q, p) =>
                /\ (q # "" /\ a \notin DOMAIN agents) => (resp'.status = 404 /\ Unchanged)
                /\ q = "" => (resp'.status = 400 /\ Unchanged)
                /\ resp'.status = 201 =>
                      /\ Len(reviews') = Len(reviews) + 1
                      /\ reviews'[Len(reviews')].status = "pending"
                      /\ reviews'[Len(reviews')].priority
                            = IF p = "" THEN "medium" ELSE p
                      /\ reviews'[Len(reviews')].priority \in Priorities]_vars


\* The store S holds the review with this id and its review_created record.
ReviewWithRecord(S, id) ==
    /\ \E i \in DOMAIN S.reviews : S.reviews[i].id = id
    /\ ActivitiesOf(S, "review_created", id) # {}

AllKept(before, after) ==
    /\ Len(after) >= Len(before)
    /\ \A i \in DOMAIN before : \E j \in DOMAIN after : after[j].id = before[i].id

\* C27: no review is ever removed from the store, in either backend; the
\* pending view holds exactly the reviews that are pending, so a resolved one
\* stays stored and is left out of it.
C27_ReviewsNeverDeleted ==
    /\ [][AllKept(reviews, reviews') /\ AllKept(reviewsJson, reviewsJson')]_vars
    /\ [](\A rows \in getPendingReviews(Store) :
            Range(rows) = {r \in Range(reviews) : r.status = "pending"})
    /\ [](Range(getReviewsFile(FileStore))
            = {r \in Range(reviewsJson) : r.status = "pending"})


StoreAfter == [agents |-> agents', activities |-> activities', reviews |-> reviews']

\* C28: POST /reviews with priority high for an existing agent answers 201
\* and the new review is then the first element of GET /reviews, ahead of
\* every older pending review; after PATCH resolve its stored status is
\* resolved and no GET /reviews returns it, then or later.
C28_ReviewLifecycleEndToEnd ==
    /\ [][\A a \in AgentInputs \cap DOMAIN agents :
             PostReview(a, "X?", "high") =>
                /\ resp'.status = 201
                /\ \A rows \in getPendingReviews(StoreAfter) :
                      rows # <<>> /\ rows[1].id = resp'.id]_vars
    /\ [][(resp'.op = "PATCH resolve" /\ resp'.status = 200) =>
             /\ reviews'[reviewIndex(StoreAfter, resp'.id)].status = "resolved"
             /\ \A rows \in getPendingReviews(StoreAfter) :
                   \A i \in DOMAIN rows : rows[i].id # resp'.id]_vars
    /\ [](\A rows \in getPendingReviews(Store) :
            \A i \in DOMAIN rows : rows[i].status = "pending")

\* The answer is `code`, and the store and every connection are as before.
Rejected(code) == resp'.status = code /\ Unchanged

\* C29: POST task, status, activity and reviews answer 400 when a required
\* field is missing and 404 when the body is complete and the agent is
\* unknown; in both cases agents, activities and reviews are unchanged and
\* no message is sent.
C29_RejectedWritesChangeNothing ==
    /\ [][\A id \in AgentInputs, task \in TaskInputs :
             PostTask(id, task) =>
                /\ Falsy(task) => Rejected(400)
                /\ (~Falsy(task) /\ id \notin DOMAIN agents) => Rejected(404)]_vars
    /\ [][\A id \in AgentInputs, status \in StatusInputs :
             PostStatus(id, status) =>
                /\ Falsy(status) => Rejected(400)
                /\ (~Falsy(status) /\ id \notin DOMAIN agents) => Rejected(404)]_vars
    /\ [][\A id \in AgentInputs, type \in TypeInputs, description \in DescriptionInputs :
             PostActivity(id, type, description) =>
                /\ (Falsy(type) \/ Falsy(description)) => Rejected(400)
                /\ (~Falsy(type) /\ ~Falsy(description) /\ id \notin DOMAIN agents)
                      => Rejected(404)]_vars
    /\ [][\A a \in AgentInputs \cup {""}, q \in QuestionInputs :
             PostReview(a, q, "high") =>
                /\ (Falsy(a) \/ Falsy(q)) => Rejected(400)
                /\ (~Falsy(a) /\ ~Falsy(q) /\ a \notin DOMAIN agents) => Rejected(404)]_vars

\* C29 witness: a review for an id that is no agent has just been refused
\* with 404, after a review was stored and sent to the open connection.
C29_Witness ==
    /\ resp.op = "POST review" /\ resp.status = 404 /\ resp.agentId = "ghost"
    /\ Len(reviews) > Len(Seeded.reviews)
    /\ readyState[1] = "OPEN"
    /\ \E i \in DOMAIN inbox[1] : inbox[1][i].type = "review"


NewMessages == {sent'[i] : i \in (DOMAIN sent') \ (DOMAIN sent)}

NewOfType(a, type) == {r \in NewActivities : r.agent_id = a /\ r.type = type}

\* What one addActivity leaves of the agent's list `old`.
OneMoreActivity(old, new) ==
    /\ new # <<>>
    /\ Head(new).id = DateNow(now)
    /\ Len(new) = (IF Len(old) < RetentionBound THEN Len(old) + 1 ELSE RetentionBound)
    /\ Tail(new) = SubSeq(old, 1, Len(new) - 1)

\* C30: a write and its paired activity insert are one step: every row and
\* every message a step adds belongs to the one operation that ran, a changed
\* task or status comes with its record in the same step, what other
\* producers wrote before stays, and the write itself is in the store after.
C30_WriteWithItsRecordIsOneStep ==
    /\ [][/\ SubSeq(activities', 1, Len(activities)) = activities
          /\ SubSeq(sent', 1, Len(sent)) = sent
          /\ \A r \in NewActivities : r.agent_id = resp'.agentId
          /\ \A m \in NewMessages : m.agentId = resp'.agentId
          /\ \A a \in DOMAIN agents :
                /\ agents'[a] # agents[a] => a = resp'.agentId
                /\ agents'[a].current_task # agents[a].current_task
                      => NewOfType(a, "task_update") # {}
                /\ agents'[a].status # agents[a].status
                      => NewOfType(a, "task_update") \cup NewOfType(a, "status_change") # {}
          /\ \A a \in DOMAIN agentsJson :
                agentsJson'[a] # agentsJson[a] => a = resp'.agentId
          /\ (agents' # agents \/ activities' # activities)
                => UNCHANGED <<agentsJson, reviewsJson>>
          /\ agentsJson' # agentsJson => UNCHANGED <<agents, activities, reviews>>]_vars
    /\ [][PostTask("buppy", "t1") =>
             /\ resp'.status = 200
             /\ agents'["buppy"].current_task = "t1"
             /\ Cardinality(NewOfType("buppy", "task_update")) = 1
             /\ Len(activities') = Len(activities) + 1
             /\ sent' = Append(sent, TaskMsg("buppy", "t1"))]_vars
    /\ [][PostStatus("zoomie", "idle") =>
             /\ resp'.status = 200
             /\ agents'["zoomie"].status = "idle"
             /\ Cardinality(NewOfType("zoomie", "status_change")) = 1
             /\ Len(activities') = Len(activities) + 1
             /\ Len(sent') = Len(sent) + 2
             /\ sent'[Len(sent')] = StatusMsg("zoomie", "idle")]_vars
    /\ [][\A a \in {"buppy", "zoomie"} :
             (FileWatcherChange(a, "file_update") \/ FileGenerator(a)) =>
                /\ OneMoreActivity(agentsJson[a].activities, agentsJson'[a].activities)
                /\ sent' = Append(sent, ActivityMsg(a, DateNow(now)))]_vars

\* C30 witness: a status update has just been stored with its record, after
\* a task update by another request and an activity of the flat-file
\* generator.
C30_Witness ==
    /\ resp.op = "POST status" /\ resp.status = 200
    /\ agents["zoomie"].status = "idle"
    /\ agents["buppy"].current_task = "t1"
    /\ \E i \in DOMAIN activities : activities[i].type = "status_change"
    /\ \E i \in DOMAIN activities : activities[i].type = "task_update"
    /\ agentsJson["zoomie"].activities # <<>>


\* The handlers of the flat-file server, by what they leave in resp.
FileOps == {"file POST review", "file PATCH resolve", "file watcher", "file generator",
            "addActivity"}

\* Message m describes something the relational store holds after the step.
InStore(m) ==
    CASE m.type = "activity" ->
            \E i \in DOMAIN activities' :
               activities'[i].id = m.id /\ activities'[i].agent_id = m.agentId
      [] m.type = "task_update" ->
            m.agentId \in DOMAIN agents' /\ agents'[m.agentId].current_task = m.task
      [] m.type = "status_update" ->
            m.agentId \in DOMAIN agents' /\ agents'[m.agentId].status = m.status
      [] m.type = "review" ->
            \E i \in DOMAIN reviews' :
               /\ reviews'[i].id = m.id /\ reviews'[i].agent_id = m.agentId
               /\ reviews'[i].priority = m.priority
      [] m.type = "review-resolved" ->
            \E i \in DOMAIN reviews' : reviews'[i].id = m.id /\ reviews'[i].status = "resolved"
      [] OTHER -> FALSE

\* Message m describes something the files hold after the step.
InFiles(m) ==
    CASE m.type = "activity" ->
            /\ m.agentId \in DOMAIN agentsJson'
            /\ agentsJson'[m.agentId].activities # <<>>
            /\ Head(agentsJson'[m.agentId].activities).id = m.id
      [] m.type = "review" ->
            /\ reviewsJson' # <<>>
            /\ Head(reviewsJson').id = m.id /\ Head(reviewsJson').agentId = m.agentId
      [] m.type = "review-resolved" ->
            \E i \in DOMAIN reviewsJson' :
               reviewsJson'[i].id = m.id /\ reviewsJson'[i].status = "resolved"
      [] OTHER -> FALSE

\* C31: every message a handler broadcasts describes a mutation that is in
\* the store when the handler has sent it, nothing already sent is taken
\* back, and a handler that answers with an error or whose insert failed
\* broadcasts nothing.
C31_BroadcastFollowsWrite ==
    [][/\ Len(sent') >= Len(sent) /\ SubSeq(sent', 1, Len(sent)) = sent
       /\ \A i \in DOMAIN Emitted :
             IF resp'.op \in FileOps THEN InFiles(Emitted[i]) ELSE InStore(Emitted[i])
       /\ resp'.status \in {400, 404, 500} => sent' = sent
       /\ (resp'.op = "POST activity" /\ resp'.body = <<NULL>>) => sent' = sent]_vars

\* C31 witness: review-resolved has just been broadcast for a review the
\* store now holds as resolved, after an activity and a status_update.
C31_Witness ==
    /\ resp.op = "PATCH resolve" /\ resp.status = 200
    /\ sent # <<>> /\ sent[Len(sent)] = ResolvedMsg(resp.id)
    /\ \E i \in DOMAIN reviews : reviews[i].id = resp.id /\ reviews[i].status = "resolved"
    /\ {"activity", "status_update"} \subseteq {sent[i].type : i \in DOMAIN sent}


\* What updateAgentTask(a, task) must leave of store S, as result r.
TaskUpdated(S, a, task, r) ==
    IF a \in DOMAIN S.agents
    THEN /\ r.ret = TRUE /\ ~r.threw
         /\ r.S.agents[a].current_task = task
         /\ r.S.agents[a].status = "active"
         /\ \A b \in DOMAIN S.agents \ {a} : r.S.agents[b] = S.agents[b]
         /\ DOMAIN r.S.agents = DOMAIN S.agents
         /\ r.S.reviews = S.reviews
         /\ Len(r.S.activities) = Len(S.activities) + 1
         /\ SubSeq(r.S.activities, 1, Len(S.activities)) = S.activities
         /\ r.S.activities[Len(r.S.activities)].agent_id = a
         /\ r.S.activities[Len(r.S.activities)].type = "task_update"
    ELSE r.ret = FALSE /\ ~r.threw /\ r.S = S

\* C32: updateAgentTask on an existing agent sets current_task, forces the
\* status to active, inserts exactly one task_update record for that agent
\* and changes no other agent and no review; on an unknown agent it returns
\* false and changes nothing.
C32_UpdateAgentTask ==
    /\ [](\A a \in AgentIds \cup AgentInputs, task \in {"t1", "t2"} :
            TaskUpdated(Store, a, task, updateAgentTask(Store, a, task, now)))
    /\ [][(resp'.op = "POST task" /\ resp'.status = 200) =>
             /\ agents'[resp'.agentId].status = "active"
             /\ agents'[resp'.agentId].current_task = "t1"
             /\ \A b \in DOMAIN agents \ {resp'.agentId} : agents'[b] = agents[b]
             /\ reviews' = reviews
             /\ Len(activities') = Len(activities) + 1
             /\ NewOfType(resp'.agentId, "task_update") = NewActivities]_vars

\* C32 witness: a task update has just been stored for an agent whose status
\* was idle before: the last record is its task_update, the one before it
\* the status_change, and the agent is active.
C32_Witness ==
    /\ resp.op = "POST task" /\ resp.status = 200
    /\ Len(activities) >= 2
    /\ activities[Len(activities)].type = "task_update"
    /\ activities[Len(activities)].agent_id = "buppy"
    /\ activities[Len(activities) - 1].type = "status_change"
    /\ activities[Len(activities) - 1].agent_id = "buppy"
    /\ agents["buppy"].status = "active" /\ agents["buppy"].current_task = "t1"


\* C33: POST /agents/{id}/activity answers 201 only if a record was inserted
\* and broadcast; when the insert inside logAgentActivity fails the answer
\* is an error and no activity message is broadcast.
C33_ActivityAnswerIsHonest ==
    /\ [][(resp'.op = "POST activity" /\ resp'.status = 201) =>
             /\ Len(activities') = Len(activities) + 1
             /\ resp'.body = <<activities'[Len(activities')].id>>
             /\ sent' = Append(sent, ActivityMsg(resp'.agentId, activities'[Len(activities')].id))]_vars
    /\ [][\A id \in AgentInputs, type \in TypeInputs, d \in DescriptionInputs :
             (/\ PostActivity(id, type, d)
              /\ ~Falsy(type) /\ ~Falsy(d)
              /\ logActivity(Store, id, type, d, NULL, now).threw)
                => (resp'.status >= 400 /\ sent' = sent)]_vars


\* C34: the init snapshot is the first message of every connection and the
\* only init; the step that adds the connection to the live set also sends
\* the snapshot and emits nothing, and from then on every message emitted
\* while the connection is open is delivered to it, in order.
C34_InitFirstThenEverything ==
    /\ [](\A c \in Conns :
            /\ readyState[c] # "CONNECTING" => inbox[c] # <<>>
            /\ inbox[c] # <<>> =>
                  /\ inbox[c][1].type = "init"
                  /\ \A i \in 2..Len(inbox[c]) : inbox[c][i].type # "init")
    /\ [][\A c \in Conns :
             /\ (c \notin clients /\ c \in clients') =>
                   /\ inbox[c] = <<>> /\ Len(inbox'[c]) = 1
                   /\ sent' = sent
                   /\ UNCHANGED <<agents, activities, reviews>>
             /\ (c \in clients /\ readyState[c] = "OPEN") =>
                   inbox'[c] = inbox[c] \o Emitted]_vars

\* C34 witness: the second connection arrived after messages had been
\* emitted, and has its snapshot followed by a status_update and the
\* metrics message that were emitted since.
C34_Witness ==
    /\ readyState[2] = "OPEN"
    /\ Len(inbox[2]) >= 3 /\ Len(sent) >= Len(inbox[2])
    /\ inbox[2][1].type = "init"
    /\ {"status_update", "system"} \subseteq {inbox[2][i].type : i \in 2..Len(inbox[2])}
    /\ inbox[2][Len(inbox[2])] = sent[Len(sent)]


\* C35: the live set holds exactly the connections that have connected and
\* whose close event has not been handled; a broadcast changes the set by
\* nothing and gives nothing to a member that is not open; a connection
\* enters the set when it connects and leaves it when its close is handled.
C35_LiveSetIsConnectedNotClosed ==
    /\ [](clients = {c \in Conns : readyState[c] \in {"OPEN", "CLOSING"}})
    /\ []((\A c \in Conns : readyState[c] = "CLOSED") => clients = {})
    /\ [][/\ sent' # sent =>
                /\ clients' = clients
                /\ \A c \in clients : readyState[c] # "OPEN" => inbox'[c] = inbox[c]
          /\ \A c \in Conns :
                /\ (c \notin clients /\ c \in clients') => readyState[c] = "CONNECTING"
                /\ (c \in clients /\ c \notin clients') =>
                      (readyState[c] = "CLOSING" /\ readyState'[c] = "CLOSED")]_vars

\* C35 witness: one connection has closed and left the set, the other is
\* closing, still in the set, and did not get the message emitted last.
C35_Witness ==
    /\ readyState[1] = "CLOSED" /\ 1 \notin clients
    /\ readyState[2] = "CLOSING" /\ clients = {2}
    /\ sent # <<>> /\ inbox[2][Len(inbox[2])] # sent[Len(sent)]


\* The client has an agent with this id.
KnownAgent(A, id) == \E i \in DOMAIN A : A[i].id = id

\* The client's list of agent id, <<>> when the client has no such agent.
ListOf(A, id) ==
    IF KnownAgent(A, id) THEN A[CHOOSE i \in DOMAIN A : A[i].id = id].activities ELSE <<>>

\* new is old with x put in front, cut to keep entries.
Unshifted(old, new, x, keep) ==
    /\ new # <<>> /\ Head(new) = x
    /\ Len(new) = (IF Len(old) < keep THEN Len(old) + 1 ELSE keep)
    /\ Tail(new) = SubSeq(old, 1, Len(new) - 1)

\* C36: in the push client an agent's list never holds more than 50 entries
\* and the global list never more than 20; an activity message for a known
\* agent goes to the front of both lists, the older entries following in
\* their order; one for an id that is no agent of the client changes
\* nothing of the client's state.
C36_ClientListsBounded ==
    /\ [](/\ Len(thisActivities) <= GlobalKeep
          /\ \A i \in DOMAIN thisAgents : Len(thisAgents[i].activities) <= AgentKeep)
    /\ [][(handled' = handled + 1 /\ inbox[1][handled'].type = "activity") =>
             LET m == inbox[1][handled']
             IN IF KnownAgent(thisAgents, m.agentId)
                THEN /\ Unshifted(ListOf(thisAgents, m.agentId), ListOf(thisAgents', m.agentId),
                                  m.id, AgentKeep)
                     /\ Unshifted(thisActivities, thisActivities',
                                  [id |-> m.id, agentId |-> m.agentId], GlobalKeep)
                     /\ \A a \in Range(IdsOf(thisAgents)) \ {m.agentId} :
                           ListOf(thisAgents', a) = ListOf(thisAgents, a)
                ELSE UNCHANGED <<thisAgents, thisActivities, fetching>>]_vars

\* C36 witness: the client has handled every message of the feed, one of
\* them for an id that is no agent; one agent's list is full and has lost
\* its oldest entry, and the global list is full with the newest in front.
C36_Witness ==
    /\ handled = Len(inbox[1])
    /\ \E k \in DOMAIN inbox[1] : inbox[1][k].type = "activity" /\ inbox[1][k].agentId = "ghost"
    /\ Len(ListOf(thisAgents, "zoomie")) = AgentKeep
    /\ ListOf(thisAgents, "zoomie")[AgentKeep] # 2
    /\ Len(thisActivities) = GlobalKeep
    /\ inbox[1][handled].agentId = "zoomie"
    /\ Head(thisActivities).id = handled


\* Run c has its answer and goes on in this step.
Applies(c) == c \in DOMAIN cycles /\ cycles[c].at = "answered" /\ cycles'[c] # cycles[c]

\* C37: when runs of the poll callback overlap, an answer that replaces a
\* cache was read from a store at least as new as the one the cache already
\* reflects: none of agents, activities and reviews goes back to an older
\* store state.
C37_OverlappingPollsNeverRegress ==
    [][\A c \in DOMAIN cycles :
          Applies(c) =>
             /\ cacheActivities' # cacheActivities => cycles[c].asOf >= applied.activities
             /\ cacheAgents' # cacheAgents => cycles[c].asOf >= applied.agents
             /\ cacheReviews' # cacheReviews => cycles[c].asOf >= applied.reviews]_vars

====
